---- MODULE Spec2Model ----
(***************************************************************************)
(* State-machine model of scripts/kraken_day_capture.py:                   *)
(*   - fetch_trades_for_day: the paginated, cursor-driven trade fetcher    *)
(*   - _paced_send:          the paced replay scheduler                    *)
(*   - ws_serve_shared:      one scheduler broadcasting to all subscribers *)
(*   - ws_serve_per_client:  one scheduler per connection                  *)
(*   - make_second_bars:     the one-second OHLCV aggregator               *)
(*   - _build_df_for_replay, _gen_tick_messages, _gen_secbar_messages:     *)
(*                           the replay source                             *)
(*   - parse_duration_to_seconds                                           *)
(* and of backtest/orchestrator.py:                                        *)
(*   - BacktestOrchestrator.download_days and the cache index              *)
(* Times are integers.  Row times are in seconds, cursors in "ns" where    *)
(* one second is NsPerSec ns (1_000_000_000 in the source, scaled down).   *)
(***************************************************************************)
EXTENDS Integers, Sequences, FiniteSets, TLC

VARIABLES
    \* ---- fetch_trades_for_day ----
    day_start,      \* window start, seconds (argument)
    day_end,        \* window end, seconds (argument)
    since,          \* the pagination cursor sent with the next request (ns)
    pages,          \* number of page requests issued so far
    fetch_pc,       \* "idle" | "loop" | "request" | "sleep" | "done" | "raised"
    emitted,        \* the trades yielded so far (trade ids, in yield order)
    exit_by,        \* how the while loop was left: "none" | "while" | "break"
    resp_kind,      \* kind of the last response received ("none" before any)
    resp_last,      \* the `last` of the last page received (None if it had none)
    fetched,        \* ids of the rows contained in the pages received so far
    pages_sorted,   \* every page received so far had its rows in time order
    \* ---- _paced_send ----
    src,            \* the source: the src_ts of each message iter_msgs() yields
    pace,           \* argument pace
    loop_forever,   \* argument loop_forever
    now,            \* the event loop's clock, loop.time()
    sched_pc,       \* "idle" | "start" | "iter" | "sleeping" | "sending" | "done" | "failed"
    pass,           \* number of the current pass (1, 2, ...)
    pos,            \* number of messages taken from the current pass's iterator
    first_src,      \* local first_src (None before the first message of a pass)
    wall0,          \* local wall0
    wake_at,        \* clock value at which the pending asyncio.sleep is due
    inflight,       \* callbacks started and not yet returned: set of <<pass, k>>
    delivered,      \* callbacks started so far: sequence of [pass, k, at]
    \* ---- ws_serve_shared ----
    clients,        \* the set `clients`
    lock_holders,   \* the tasks inside `async with clients_lock`
    h_pc,           \* per connection, where its handler is
    ws_state,       \* per connection: "none" | "open" | "closed"
    bc_pc,          \* where broadcast() is: "idle" | "locked" | "waiting" | "cleanup"
    targets,        \* broadcast's snapshot `targets`
    tasks,          \* per connection, its send task of the current broadcast
    snaps,          \* number of snapshots taken so far (one per broadcast)
    joined_at,      \* per connection, the value of snaps when it was added
    sent,           \* per connection, the broadcasts (by number) sent to it
    \* ---- ws_serve_per_client ----
    conn,           \* per connection, its handler's and scheduler's state
    \* ---- make_second_bars, _build_df_for_replay, _gen_*_messages ----
    file,           \* the lines of the captured file, in file order (trade ids)
    symbol,         \* the --symbol filter ("" when not given)
    ticks,          \* args.ticks: raw trades (TRUE) or one-second bars
    rp_pc,          \* "idle" | "load" | "ready" | "frame" | "made"
    df,             \* the trades frame: sequence of trade ids in row order
    bars,           \* what make_second_bars(df) returned (sequence of bars)
    exported,       \* the rows save_parquet wrote to --sec-bars
    its,            \* per iterator of the replay source: its state and output
    \* ---- parse_duration_to_seconds ----
    dur_in,         \* the argument expr, a sequence of characters
    dur_pc,         \* "idle" | "call" | "returned" | "raised"
    dur_out,        \* the value returned (None if none)
    \* ---- BacktestOrchestrator.download_days ----
    index,          \* self.index: per symbol, its downloaded_dates list
    index_file,     \* data/.index.json: whether it exists, and its content
    data_files,     \* the <<symbol, date>> whose .jsonl.gz file exists
    returned_true,  \* the <<symbol, date>> _download_day has returned True for
    dl              \* the download_days call in progress

fetchVars == <<day_start, day_end, since, pages, fetch_pc, emitted, exit_by,
               resp_kind, resp_last, fetched, pages_sorted>>
schedVars == <<src, pace, loop_forever, now, sched_pc, pass, pos, first_src,
               wall0, wake_at, inflight, delivered>>
hubVars == <<clients, lock_holders, h_pc, ws_state, bc_pc, targets, tasks,
             snaps, joined_at, sent>>
replayVars == <<file, symbol, ticks, rp_pc, df, bars, exported, its>>
durVars == <<dur_in, dur_pc, dur_out>>
cacheVars == <<index, index_file, data_files, returned_true, dl>>
vars == <<fetchVars, schedVars, hubVars, conn, replayVars, durVars, cacheVars>>

\* Python's None (for last, last_trade_ts, first_src).
None == -1

(***************************************************************************)
(* Bounds of the model.                                                    *)
(***************************************************************************)
\* the page ceiling; 200000 in the source (line 142), scaled down
max_pages == 2
\* the largest number of rows in one page
MaxRows == 2
\* cursor units per second; 1_000_000_000 in the source (lines 138-139)
NsPerSec == 2
\* the largest number of messages in a replay source
MaxMsgs == 3
\* the clock only advances beyond this value while a sleep is pending
MaxClock == 3
\* the passes modelled when loop_forever is set
MaxPasses == 2
\* the largest number of trades in a captured file
MaxTrades == 3
\* the largest number of dates in one download_days call
MaxDates == 2
\* the largest number of characters of a duration expression
MaxDurLen == 3

(***************************************************************************)
(* The server's trade log: trade id |-> time (seconds).  A row of a page   *)
(* is a trade id; the same id in two pages is the same row served twice.   *)
(***************************************************************************)
TradeTime == <<0, 1, 2, 3>>
TradeIds == 1..Len(TradeTime)

\* the windows [day_start, day_end) a fetch is started with
Windows == {<<1, 3>>, <<1, 2>>}

\* what the server may answer
\* a page holds up to MaxRows distinct rows, in any order
Pages ==
    UNION {{p \in [1..n -> TradeIds] : \A i, j \in 1..n : p[i] = p[j] => i = j}
           : n \in 0..MaxRows}
\* cursor values up to the time of the latest trade of the log
Cursors == 0..(TradeTime[Len(TradeTime)] * NsPerSec)
Lasts == {None} \cup Cursors
RespKinds == {"ok", "transport", "http", "apierror"}

\* ---------------------------------------------------------------------
\* fetch_trades_for_day
\* ---------------------------------------------------------------------
start_ns == day_start * NsPerSec
end_ns == day_end * NsPerSec

\* the while condition (line 146)
LoopGuardOffByOne == pages <= max_pages /\ since < end_ns
LoopGuard == pages < max_pages /\ since < end_ns

\* a row is yielded unless one of the two `continue`s skips it (lines 171-176)
InWindowInclusiveEnd(ts) == ~(ts < day_start) /\ ~(ts > day_end)
InWindow(ts) == ~(ts < day_start) /\ ~(ts >= day_end)

\* the rows of one page that are yielded, in page order (lines 167-187)
RECURSIVE EmitRows(_)
EmitRows(rows) ==
    IF rows = <<>> THEN <<>>
    ELSE (IF InWindow(TradeTime[Head(rows)]) THEN <<Head(rows)>> ELSE <<>>)
         \o EmitRows(Tail(rows))

\* last_trade_ts after the for loop (lines 166-170)
LastTradeTs(rows) ==
    IF rows = <<>> THEN None ELSE TradeTime[rows[Len(rows)]]

\* the cursor update (lines 189-200): whether it breaks, and the new since
AdvanceCursor(last, last_trade_ts, s) ==
    IF last = None
    THEN [brk |-> (last_trade_ts = None), since |-> s]
    ELSE IF last <= s
         THEN IF last_trade_ts = None \/ last_trade_ts >= day_end
              THEN [brk |-> TRUE, since |-> s]
              ELSE [brk |-> FALSE, since |-> last]
         ELSE [brk |-> FALSE, since |-> last]

\* session.get raising, raise_for_status raising, or a non-empty error field
\* (lines 149-153)
FailsIgnoringErrorField(kind) == kind \in {"transport", "http"}
Fails(kind) == kind # "ok"

\* what an error body parses to when it is processed as a page:
\* j.get("result", {}) gives no `last` and no rows (lines 155-163)
PageOf(kind, last, rows) ==
    IF kind = "ok" THEN [last |-> last, rows |-> rows]
    ELSE [last |-> None, rows |-> <<>>]

IsSorted(rows) ==
    \A i \in 1..(Len(rows) - 1) : TradeTime[rows[i]] <= TradeTime[rows[i + 1]]

FetchIdle ==
    /\ day_start = 0 /\ day_end = 0 /\ since = 0 /\ pages = 0
    /\ fetch_pc = "idle" /\ emitted = <<>> /\ exit_by = "none"
    /\ resp_kind = "none" /\ resp_last = None /\ fetched = {}
    /\ pages_sorted = TRUE

SchedIdle ==
    /\ src = <<>> /\ pace = 0 /\ loop_forever = FALSE /\ now = 0
    /\ sched_pc = "idle" /\ pass = 0 /\ pos = 0 /\ first_src = None
    /\ wall0 = 0 /\ wake_at = 0 /\ inflight = {} /\ delivered = <<>>

\* the connections (websocket objects) a hub may accept
Conns == {"A", "B"}

HubIdle ==
    /\ clients = {} /\ lock_holders = {} /\ bc_pc = "idle" /\ targets = {}
    /\ h_pc = [c \in Conns |-> "none"]
    /\ ws_state = [c \in Conns |-> "none"]
    /\ tasks = [c \in Conns |-> "none"]
    /\ snaps = 0
    /\ joined_at = [c \in Conns |-> None]
    /\ sent = [c \in Conns |-> {}]

\* a connection not yet accepted: no handler, no scheduler.  log is the
\* sequence of the calls of its send callback; attempts_at_close records how
\* many calls had been made when it closed during a pacing delay that had
\* not yet elapsed
NoConn ==
    [pc |-> "none", ws |-> "none", pass |-> 0, pos |-> 0, first_src |-> None,
     wall0 |-> 0, wake_at |-> 0, log |-> <<>>, attempts_at_close |-> None]

ConnIdle ==
    conn = [c \in Conns |-> NoConn]

\* the iterators of the replay source that may be alive at once
Iters == {1, 2}

\* an iterator not yet created by make_iter()
\* (out: the pairs yielded by its current iteration; prev: those of its
\* previous, completed one; made: how many times it was created)
NoIter == [pc |-> "none", pos |-> 0, out |-> <<>>, prev |-> <<>>, made |-> 0]

ReplayIdle ==
    /\ file = <<>> /\ symbol = "" /\ ticks = FALSE /\ rp_pc = "idle"
    /\ df = <<>> /\ bars = <<>> /\ exported = <<>>
    /\ its = [i \in Iters |-> NoIter]

DurIdle ==
    dur_in = <<>> /\ dur_pc = "idle" /\ dur_out = None

\* no download_days call in progress
NoCall == [pc |-> "idle", symbol |-> "", dates |-> <<>>, force |-> FALSE,
           i |-> 0, success |-> 0, failed |-> 0]

\* the symbols download_days is called for
CacheSymbols == {"XBTUSD", "ETHUSD"}

\* the index `{}` of _load_index when there is no index file (lines 56-57):
\* no symbol is a key of it
EmptyIndex ==
    [s \in CacheSymbols |-> [present |-> FALSE, downloaded_dates |-> <<>>]]

\* no index in memory or on disk, no data file
CacheIdle ==
    /\ index = EmptyIndex
    /\ index_file = [exists |-> FALSE, content |-> EmptyIndex]
    /\ data_files = {} /\ returned_true = {} /\ dl = NoCall

\* the state at the first next() of the generator (lines 138-144)
FetchInit ==
    /\ \E w \in Windows : day_start = w[1] /\ day_end = w[2]
    /\ since = start_ns
    /\ pages = 0
    /\ fetch_pc = "loop"
    /\ emitted = <<>>
    /\ exit_by = "none"
    /\ resp_kind = "none"
    /\ resp_last = None
    /\ fetched = {}
    /\ pages_sorted = TRUE
    /\ SchedIdle /\ HubIdle /\ ConnIdle /\ ReplayIdle /\ DurIdle
    /\ CacheIdle

\* the while test and, when it passes, the request (lines 146-149)
LoopTest ==
    /\ fetch_pc = "loop"
    /\ IF LoopGuard
       THEN /\ pages' = pages + 1
            /\ fetch_pc' = "request"
            /\ exit_by' = exit_by
       ELSE /\ pages' = pages
            /\ fetch_pc' = "done"
            /\ exit_by' = "while"
    /\ UNCHANGED <<day_start, day_end, since, emitted, resp_kind, resp_last,
                   fetched, pages_sorted, schedVars, hubVars, conn,
                   replayVars, durVars,
                   cacheVars>>

\* where the loop body goes once a page is processed without a break:
\* time.sleep(rate_delay), then the while test (lines 207, 146)
AfterPageNoDelay == "loop"
AfterPage == "sleep"

\* the response to the outstanding request and the processing of its page
\* (lines 149-200)
Response(kind, last, rows) ==
    /\ fetch_pc = "request"
    /\ resp_kind' = kind
    /\ IF Fails(kind)
       THEN /\ fetch_pc' = "raised"
            /\ resp_last' = None
            /\ UNCHANGED <<since, emitted, exit_by, fetched, pages_sorted>>
       ELSE LET page == PageOf(kind, last, rows)
                adv == AdvanceCursor(page.last, LastTradeTs(page.rows), since)
            IN  /\ resp_last' = page.last
                /\ emitted' = emitted \o EmitRows(page.rows)
                /\ fetched' = fetched \cup {page.rows[i] : i \in 1..Len(page.rows)}
                /\ pages_sorted' = (pages_sorted /\ IsSorted(page.rows))
                /\ since' = adv.since
                /\ IF adv.brk
                   THEN fetch_pc' = "done" /\ exit_by' = "break"
                   ELSE fetch_pc' = AfterPage /\ exit_by' = exit_by
    /\ UNCHANGED <<day_start, day_end, pages, schedVars, hubVars, conn,
                   replayVars, durVars,
                   cacheVars>>

\* time.sleep(rate_delay) returns (line 207)
RateDelay ==
    /\ fetch_pc = "sleep"
    /\ fetch_pc' = "loop"
    /\ UNCHANGED <<day_start, day_end, since, pages, emitted, exit_by,
                   resp_kind, resp_last, fetched, pages_sorted,
                   schedVars, hubVars, conn,
                   replayVars, durVars,
                   cacheVars>>

\* the server answers the request with a page
ServerPage ==
    \E last \in Lasts, rows \in Pages : Response("ok", last, rows)

\* the request fails, or its body carries an error field
ServerFails ==
    \E kind \in RespKinds \ {"ok"} : Response(kind, None, <<>>)

FetchNext == LoopTest \/ ServerPage \/ ServerFails \/ RateDelay

FetchSpec == FetchInit /\ [][FetchNext]_vars

\* every request is answered (or times out, timeout=60) and every sleep ends
FetchFairSpec == FetchSpec /\ WF_vars(FetchNext)

\* ---------------------------------------------------------------------
\* _paced_send
\* ---------------------------------------------------------------------
\* source timestamps; each is a multiple of every positive pace, so that
\* elapsed_src / pace is exact in integers
SrcTimes == {0, 2, 4}
Paces == {-1, 0, 1, 2}

\* the sources: _build_df_for_replay sorts the dataset by time (line 386)
Sources ==
    UNION {{q \in [1..n -> SrcTimes] : \A i \in 1..(n - 1) : q[i] <= q[i + 1]}
           : n \in 0..MaxMsgs}

\* delay = (elapsed_src / pace) - elapsed_wall (lines 445-447), for pace > 0
DelayIgnoringElapsedWall(src_ts, fs, w0) == (src_ts - fs) \div pace
DelayAtLeastOne(src_ts, fs, w0) ==
    IF ((src_ts - fs) \div pace) - (now - w0) > 0
    THEN ((src_ts - fs) \div pace) - (now - w0)
    ELSE 1
Delay(src_ts, fs, w0) == ((src_ts - fs) \div pace) - (now - w0)

\* the delay a message is suspended for: none unless pace > 0 (lines 444-449)
PacingDelayDefaultRealTime(src_ts, fs, w0) ==
    IF pace > 0 THEN Delay(src_ts, fs, w0) ELSE (src_ts - fs) - (now - w0)
PacingDelay(src_ts, fs, w0) ==
    IF pace > 0 THEN Delay(src_ts, fs, w0) ELSE 0

\* first_src at the top of each pass (line 438)
FirstSrcKeptAcrossPasses == first_src
FirstSrcAtPassStart == None

\* where the scheduler is after starting the callback: `await send_func(...)`
\* suspends it until the callback has returned (line 450)
SendPcNotAwaited == "iter"
SendPc == "sending"

\* the for loop has consumed the iterator (line 440)
ExhaustedOneEarly == pos + 1 >= Len(src)
Exhausted == pos = Len(src)

\* `if not loop_forever: break` (lines 451-452)
BreakAfterPassAlways == TRUE
BreakAfterPass == ~loop_forever

PacedInit ==
    /\ src \in Sources
    /\ pace \in Paces
    /\ loop_forever \in BOOLEAN
    /\ now = 0
    /\ sched_pc = "start"
    /\ pass = 0
    /\ pos = 0
    /\ first_src = None
    /\ wall0 = 0
    /\ wake_at = 0
    /\ inflight = {}
    /\ delivered = <<>>
    /\ FetchIdle /\ HubIdle /\ ConnIdle /\ ReplayIdle /\ DurIdle
    /\ CacheIdle

\* send_func(payload) is called for message k of the current pass
StartSend(k) ==
    /\ delivered' = Append(delivered, [pass |-> pass, k |-> k, at |-> now])
    /\ inflight' = inflight \cup {<<pass, k>>}
    /\ sched_pc' = SendPc

\* top of `while True`: reset the anchors, create the iterator (lines 437-440)
PassStart ==
    /\ sched_pc = "start"
    /\ pass < MaxPasses
    /\ pass' = pass + 1
    /\ first_src' = FirstSrcAtPassStart
    /\ wall0' = now
    /\ pos' = 0
    /\ sched_pc' = "iter"
    /\ UNCHANGED <<src, pace, loop_forever, now, wake_at, inflight, delivered,
                   fetchVars, hubVars, conn, replayVars, durVars,
                   cacheVars>>

\* one turn of the for loop up to its first suspension, or the end of the
\* pass (lines 440-452)
NextMsg ==
    /\ sched_pc = "iter"
    /\ IF Exhausted
       THEN /\ sched_pc' = IF BreakAfterPass THEN "done" ELSE "start"
            /\ UNCHANGED <<pos, first_src, wall0, wake_at, inflight, delivered>>
       ELSE LET k == pos + 1
                fs == IF first_src = None THEN src[k] ELSE first_src
                w0 == IF first_src = None THEN now ELSE wall0
            IN  /\ pos' = k
                /\ first_src' = fs
                /\ wall0' = w0
                /\ IF PacingDelay(src[k], fs, w0) > 0
                   THEN /\ sched_pc' = "sleeping"
                        /\ wake_at' = now + PacingDelay(src[k], fs, w0)
                        /\ UNCHANGED <<inflight, delivered>>
                   ELSE /\ StartSend(k)
                        /\ UNCHANGED wake_at
    /\ UNCHANGED <<src, pace, loop_forever, now, pass, fetchVars, hubVars, conn,
                   replayVars, durVars,
                   cacheVars>>

\* asyncio.sleep(delay) returns, not before its time is due, and the
\* callback is called (lines 449-450)
Wake ==
    /\ sched_pc = "sleeping"
    /\ now >= wake_at
    /\ StartSend(pos)
    /\ UNCHANGED <<src, pace, loop_forever, now, pass, pos, first_src, wall0,
                   wake_at, fetchVars, hubVars, conn, replayVars, durVars,
                   cacheVars>>

\* a callback returns; the scheduler awaiting it resumes (line 450)
SendReturn ==
    /\ \E c \in inflight : inflight' = inflight \ {c}
    /\ sched_pc' = IF sched_pc = "sending" THEN "iter" ELSE sched_pc
    /\ UNCHANGED <<src, pace, loop_forever, now, pass, pos, first_src, wall0,
                   wake_at, delivered, fetchVars, hubVars, conn,
                   replayVars, durVars,
                   cacheVars>>

\* the awaited callback raises: the exception leaves _paced_send (line 450)
SendFail ==
    /\ sched_pc = "sending"
    /\ inflight # {}
    /\ inflight' = {}
    /\ sched_pc' = "failed"
    /\ UNCHANGED <<src, pace, loop_forever, now, pass, pos, first_src, wall0,
                   wake_at, delivered, fetchVars, hubVars, conn,
                   replayVars, durVars,
                   cacheVars>>

\* the clock advances
Tick ==
    /\ sched_pc \notin {"idle", "done", "failed"}
    /\ now < MaxClock \/ (sched_pc = "sleeping" /\ now < wake_at)
    /\ now' = now + 1
    /\ UNCHANGED <<src, pace, loop_forever, sched_pc, pass, pos, first_src,
                   wall0, wake_at, inflight, delivered, fetchVars, hubVars, conn,
                   replayVars, durVars,
                   cacheVars>>

SchedStep == PassStart \/ NextMsg \/ Wake \/ SendReturn

PacedNext == SchedStep \/ SendFail \/ Tick

PacedSpec == PacedInit /\ [][PacedNext]_vars

\* the clock runs, the event loop resumes a ready scheduler, and a callback
\* that does not fail returns
PacedFairSpec == PacedSpec /\ WF_vars(Tick) /\ WF_vars(SchedStep)

\* ---------------------------------------------------------------------
\* ws_serve_shared: _paced_send(make_iter, pace, broadcast, loop) beside one
\* handler per connection.  `async with clients_lock` is modelled as an
\* acquire step followed by a step for its body and the release.
\* ---------------------------------------------------------------------
\* the sources and paces the shared hub is started with
SharedSources == {<<0, 2>>}
SharedPaces == {0, 2}

\* clients_lock can be acquired (asyncio.Lock, lines 490, 493, 498, 503)
LockFreeAlways == TRUE
LockFree == lock_holders = {}

\* the connections broadcast creates a send task for: every one of the
\* snapshot (lines 508-510)
FanOutOneOnly(ts) == IF ts = {} THEN {} ELSE {CHOOSE c \in ts : TRUE}
FanOut(ts) == ts

\* what the shared handler sends to a connection when it joins: nothing, it
\* only registers it (lines 492-499)
JoinReplayFromStart(c) == 1..snaps
JoinReplay(c) == {}

\* whether broadcast raises into the scheduler once its sends are done: the
\* tasks' exceptions are read from the tasks, never raised (lines 511-520)
BcastRaisesOnFailure(tks) == \E c \in Conns : tks[c] = "exc"
BcastRaises(tks) == FALSE

\* the hub starts with the event loop's clock at MaxClock: from there the
\* clock advances only across the scheduler's sleeps
SharedInit ==
    /\ src \in SharedSources
    /\ pace \in SharedPaces
    /\ loop_forever \in BOOLEAN
    /\ now = MaxClock
    /\ sched_pc = "start"
    /\ pass = 0
    /\ pos = 0
    /\ first_src = None
    /\ wall0 = 0
    /\ wake_at = 0
    /\ inflight = {}
    /\ delivered = <<>>
    /\ HubIdle /\ FetchIdle /\ ConnIdle /\ ReplayIdle /\ DurIdle
    /\ CacheIdle

\* the server is up while _paced_send runs inside `async with
\* websockets.serve(...)` (lines 527-528)
ServingForever == TRUE
Serving == sched_pc \notin {"done", "failed"}

\* the server accepts a connection and starts its handler (lines 492, 527)
Connect(c) ==
    /\ Serving
    /\ h_pc[c] = "none"
    /\ h_pc' = [h_pc EXCEPT ![c] = "join_wait"]
    /\ ws_state' = [ws_state EXCEPT ![c] = "open"]
    /\ UNCHANGED <<clients, lock_holders, bc_pc, targets, tasks, snaps,
                   joined_at, sent, schedVars, fetchVars, conn,
                   replayVars, durVars,
                   cacheVars>>

\* handler: async with clients_lock (line 493)
JoinAcquire(c) ==
    /\ h_pc[c] = "join_wait"
    /\ LockFree
    /\ lock_holders' = lock_holders \cup {c}
    /\ h_pc' = [h_pc EXCEPT ![c] = "join_cs"]
    /\ UNCHANGED <<clients, ws_state, bc_pc, targets, tasks, snaps, joined_at,
                   sent, schedVars, fetchVars, conn, replayVars, durVars,
                   cacheVars>>

\* handler: clients.add(ws), release, then await ws.wait_closed()
\* (lines 494-496)
Join(c) ==
    /\ h_pc[c] = "join_cs"
    /\ clients' = clients \cup {c}
    /\ joined_at' = [joined_at EXCEPT ![c] = snaps]
    /\ sent' = [sent EXCEPT ![c] = sent[c] \cup JoinReplay(c)]
    /\ lock_holders' = lock_holders \ {c}
    /\ h_pc' = [h_pc EXCEPT ![c] = "active"]
    /\ UNCHANGED <<ws_state, bc_pc, targets, tasks, snaps, schedVars,
                   fetchVars, conn, replayVars, durVars,
                   cacheVars>>

\* the peer closes the connection, or the connection is lost
ClientClose(c) ==
    /\ ws_state[c] = "open"
    /\ ws_state' = [ws_state EXCEPT ![c] = "closed"]
    /\ UNCHANGED <<clients, lock_holders, h_pc, bc_pc, targets, tasks, snaps,
                   joined_at, sent, schedVars, fetchVars, conn,
                   replayVars, durVars,
                   cacheVars>>

\* handler: wait_closed() has returned; finally: async with clients_lock
\* (lines 496-498)
LeaveAcquire(c) ==
    /\ h_pc[c] = "active"
    /\ ws_state[c] = "closed"
    /\ LockFree
    /\ lock_holders' = lock_holders \cup {c}
    /\ h_pc' = [h_pc EXCEPT ![c] = "leave_cs"]
    /\ UNCHANGED <<clients, ws_state, bc_pc, targets, tasks, snaps, joined_at,
                   sent, schedVars, fetchVars, conn, replayVars, durVars,
                   cacheVars>>

\* clients.discard(ws) (line 499)
DiscardKeeps(cs, c) == cs
Discard(cs, c) == cs \ {c}

\* handler: clients.discard(ws), release, return (line 499)
Leave(c) ==
    /\ h_pc[c] = "leave_cs"
    /\ clients' = Discard(clients, c)
    /\ lock_holders' = lock_holders \ {c}
    /\ h_pc' = [h_pc EXCEPT ![c] = "gone"]
    /\ UNCHANGED <<ws_state, bc_pc, targets, tasks, snaps, joined_at, sent,
                   schedVars, fetchVars, conn, replayVars, durVars,
                   cacheVars>>

\* broadcast, called by the scheduler: async with clients_lock (line 503)
BcastAcquire ==
    /\ sched_pc = "sending"
    /\ bc_pc = "idle"
    /\ LockFree
    /\ lock_holders' = lock_holders \cup {"bcast"}
    /\ bc_pc' = "locked"
    /\ UNCHANGED <<clients, h_pc, ws_state, targets, tasks, snaps, joined_at,
                   sent, schedVars, fetchVars, conn, replayVars, durVars,
                   cacheVars>>

\* broadcast: snapshot, release; return if there is no target, else create
\* one send task per target and await them all (lines 504-511)
BcastSnapshot ==
    /\ bc_pc = "locked"
    /\ lock_holders' = lock_holders \ {"bcast"}
    /\ snaps' = snaps + 1
    /\ IF clients = {}
       THEN /\ bc_pc' = "idle"
            /\ sched_pc' = "iter"
            /\ inflight' = {}
            /\ UNCHANGED <<targets, tasks, sent>>
       ELSE /\ targets' = clients
            /\ tasks' = [c \in Conns |->
                            IF c \in FanOut(clients) THEN "pending" ELSE "none"]
            /\ sent' = [c \in Conns |->
                            IF c \in FanOut(clients)
                            THEN sent[c] \cup {snaps + 1} ELSE sent[c]]
            /\ bc_pc' = "waiting"
            /\ UNCHANGED <<sched_pc, inflight>>
    /\ UNCHANGED <<clients, h_pc, ws_state, joined_at, src, pace, loop_forever,
                   now, pass, pos, first_src, wall0, wake_at, delivered,
                   fetchVars, conn, replayVars, durVars,
                   cacheVars>>

\* a send task completes: the message is written to an open connection
SendOk(c) ==
    /\ tasks[c] = "pending"
    /\ ws_state[c] = "open"
    /\ tasks' = [tasks EXCEPT ![c] = "ok"]
    /\ UNCHANGED <<clients, lock_holders, h_pc, ws_state, bc_pc, targets,
                   snaps, joined_at, sent, schedVars, fetchVars, conn,
                   replayVars, durVars,
                   cacheVars>>

\* a send task ends with an exception: ConnectionClosed on a closed
\* connection, or any other send failure
SendExc(c) ==
    /\ tasks[c] = "pending"
    /\ tasks' = [tasks EXCEPT ![c] = "exc"]
    /\ UNCHANGED <<clients, lock_holders, h_pc, ws_state, bc_pc, targets,
                   snaps, joined_at, sent, schedVars, fetchVars, conn,
                   replayVars, durVars,
                   cacheVars>>

\* when asyncio.wait(send_tasks, return_when=ALL_COMPLETED) returns: once
\* every task is done (line 511)
WaitReturnsOnFirstCompleted(tks) == \E c \in Conns : tks[c] \in {"ok", "exc"}
WaitReturns(tks) == \A c \in Conns : tks[c] # "pending"

\* asyncio.wait(..., ALL_COMPLETED) returns (line 511)
BcastWaitDone ==
    /\ bc_pc = "waiting"
    /\ WaitReturns(tasks)
    /\ IF BcastRaises(tasks)
       THEN /\ bc_pc' = "idle"
            /\ sched_pc' = "failed"
            /\ inflight' = {}
       ELSE /\ bc_pc' = "cleanup"
            /\ UNCHANGED <<sched_pc, inflight>>
    /\ UNCHANGED <<clients, lock_holders, h_pc, ws_state, targets, tasks,
                   snaps, joined_at, sent, src, pace, loop_forever, now, pass,
                   pos, first_src, wall0, wake_at, delivered, fetchVars, conn,
                   replayVars, durVars,
                   cacheVars>>

\* broadcast: await ws.close() for a target whose send failed
\* (lines 513-520)
BcastClose(c) ==
    /\ bc_pc = "cleanup"
    /\ tasks[c] = "exc"
    /\ tasks' = [tasks EXCEPT ![c] = "cleaned"]
    /\ ws_state' = [ws_state EXCEPT ![c] = "closed"]
    /\ UNCHANGED <<clients, lock_holders, h_pc, bc_pc, targets, snaps,
                   joined_at, sent, schedVars, fetchVars, conn,
                   replayVars, durVars,
                   cacheVars>>

\* broadcast returns to the scheduler's `await send_func(payload)`
\* (lines 520, 450)
BcastReturn ==
    /\ bc_pc = "cleanup"
    /\ \A c \in Conns : tasks[c] # "exc"
    /\ bc_pc' = "idle"
    /\ targets' = {}
    /\ tasks' = [c \in Conns |-> "none"]
    /\ sched_pc' = "iter"
    /\ inflight' = {}
    /\ UNCHANGED <<clients, lock_holders, h_pc, ws_state, snaps, joined_at,
                   sent, src, pace, loop_forever, now, pass, pos, first_src,
                   wall0, wake_at, delivered, fetchVars, conn,
                   replayVars, durVars,
                   cacheVars>>

\* _paced_send has returned or raised: leaving `async with
\* websockets.serve(...)` closes the server, which closes every connection
\* still open (lines 527-528)
ServerClose ==
    /\ ~Serving
    /\ \E c \in Conns : ws_state[c] = "open"
    /\ ws_state' = [c \in Conns |->
                       IF ws_state[c] = "open" THEN "closed" ELSE ws_state[c]]
    /\ UNCHANGED <<clients, lock_holders, h_pc, bc_pc, targets, tasks, snaps,
                   joined_at, sent, schedVars, fetchVars, conn,
                   replayVars, durVars,
                   cacheVars>>

HandlerStep ==
    \E c \in Conns :
        Connect(c) \/ JoinAcquire(c) \/ Join(c) \/ ClientClose(c)
            \/ LeaveAcquire(c) \/ Leave(c)

SendTaskStep == \E c \in Conns : SendOk(c) \/ SendExc(c)

BcastStep ==
    \/ BcastAcquire \/ BcastSnapshot \/ BcastWaitDone \/ BcastReturn
    \/ \E c \in Conns : BcastClose(c)

SharedNext ==
    \/ PassStart \/ NextMsg \/ Wake \/ Tick
    \/ BcastStep \/ SendTaskStep \/ HandlerStep \/ ServerClose

SharedSpec == SharedInit /\ [][SharedNext]_vars

\* the event loop resumes every task that is ready: the scheduler and its
\* broadcast, a handler past its accept (waiters of clients_lock are served
\* in turn), the server's shutdown; the clock runs; and a send task ends,
\* with the message written or with an exception (a peer that stops reading
\* is closed by the keepalive of the connection).  Peers connect and close
\* as they like.
SharedFairSpec ==
    /\ SharedSpec
    /\ WF_vars(PassStart \/ NextMsg \/ Wake)
    /\ WF_vars(Tick)
    /\ WF_vars(BcastStep)
    /\ WF_vars(ServerClose)
    /\ \A c \in Conns : WF_vars(SendOk(c) \/ SendExc(c))
    /\ \A c \in Conns :
          WF_vars(JoinAcquire(c) \/ Join(c) \/ LeaveAcquire(c) \/ Leave(c))

\* ---------------------------------------------------------------------
\* ws_serve_shared on the event loop: the scheduler, the handlers and the
\* send tasks are tasks of one thread, and a task that runs keeps the thread
\* until it reaches an await that suspends it.  SharedSpec lets the tasks
\* interleave at every step; here a task is resumed only when none runs.
\* ---------------------------------------------------------------------
\* the sources and paces this hub is started with; the empty source is the
\* dataset with no rows (lines 485-487 only print a warning)
LoopSources == {<<>>, <<0>>, <<0, 2>>}
LoopPaces == {0, 2}

\* the scheduler holds the thread: it is in _paced_send's loops (lines
\* 437-447, 451), or in broadcast outside its awaits of asyncio.wait and
\* ws.close() (lines 503-510, 512-514); acquiring the free clients_lock does
\* not suspend
SchedRuns ==
    \/ sched_pc \in {"start", "iter"}
    \/ /\ sched_pc = "sending"
       /\ \/ bc_pc \in {"idle", "locked"}
          \/ bc_pc = "cleanup" /\ \A c \in Conns : tasks[c] # "exc"

\* handler c holds the thread: from its start to `await ws.wait_closed()`,
\* and from there to its return (lines 493-499)
HandlerRuns(c) == h_pc[c] \in {"join_wait", "join_cs", "leave_cs"}

\* the event loop can start or resume a task: no task holds the thread
LoopIdle == ~SchedRuns /\ \A c \in Conns : ~HandlerRuns(c)

\* the hub starts: ws_serve_shared calls _paced_send as soon as the server
\* is up (lines 527-528)
LoopInit ==
    /\ src \in LoopSources
    /\ pace \in LoopPaces
    /\ loop_forever \in BOOLEAN
    /\ now = MaxClock
    /\ sched_pc = "start"
    /\ pass = 0
    /\ pos = 0
    /\ first_src = None
    /\ wall0 = 0
    /\ wake_at = 0
    /\ inflight = {}
    /\ delivered = <<>>
    /\ HubIdle /\ FetchIdle /\ ConnIdle /\ ReplayIdle /\ DurIdle
    /\ CacheIdle

\* the scheduler task runs on, or is resumed by the idle loop
SchedTurn ==
    /\ SchedRuns \/ LoopIdle
    /\ PassStart \/ NextMsg \/ Wake \/ BcastStep

\* handler c runs on, or is resumed by the idle loop
HandlerTurn(c) ==
    /\ HandlerRuns(c) \/ LoopIdle
    /\ JoinAcquire(c) \/ Join(c) \/ LeaveAcquire(c) \/ Leave(c)

\* what the idle loop does besides: it accepts a connection, runs a send
\* task, takes note of a closed connection, shuts the server down
LoopTurn ==
    /\ LoopIdle
    /\ \/ \E c \in Conns : Connect(c) \/ ClientClose(c)
       \/ SendTaskStep
       \/ ServerClose

LoopNext == SchedTurn \/ Tick \/ LoopTurn \/ \E c \in Conns : HandlerTurn(c)

LoopSpec == LoopInit /\ [][LoopNext]_vars

\* ---------------------------------------------------------------------
\* ws_serve_per_client: every connection's handler runs
\* _paced_send(make_iter, pace, send, loop) with send = ws.send
\* ---------------------------------------------------------------------
PerClientSources == {<<0, 2>>}
PerClientPaces == {0, 2}

\* the scheduler that serves connection c: the _paced_send call of c's own
\* handler, with its own locals (lines 467-471, 435-440)
SchedOfFirstConn(c) == CHOOSE d \in Conns : TRUE
SchedOf(c) == c

\* the position in the source of the iterator make_iter() returns to c's
\* scheduler: a new generator over df, before its first row (lines 464-465)
MakeIterWhereOthersAre(c) ==
    IF \E d \in Conns \ {c} : conn[d].pos > 0
    THEN CHOOSE n \in 1..Len(src) : \E d \in Conns \ {c} : conn[d].pos = n
    ELSE 0
MakeIter(c) == 0

\* whether closing c's connection cancels c's handler while it is suspended
\* in asyncio.sleep: the handler awaits nothing but the sleep and ws.send,
\* and only ws.send raises ConnectionClosed (lines 468-473, 449-450)
CloseCancels(c) == FALSE

\* the server starts with the event loop's clock at MaxClock: from there the
\* clock advances only across the schedulers' sleeps
PerClientInit ==
    /\ src \in PerClientSources
    /\ pace \in PerClientPaces
    /\ loop_forever \in BOOLEAN
    /\ now = MaxClock
    /\ sched_pc = "idle" /\ pass = 0 /\ pos = 0 /\ first_src = None
    /\ wall0 = 0 /\ wake_at = 0 /\ inflight = {} /\ delivered = <<>>
    /\ ConnIdle /\ HubIdle /\ FetchIdle /\ ReplayIdle /\ DurIdle
    /\ CacheIdle

\* the server accepts connection c and calls handler(ws), which calls
\* _paced_send (lines 467-471, 477)
PcAccept(c) ==
    /\ conn[c].pc = "none"
    /\ conn' = [conn EXCEPT ![c].pc = "start", ![c].ws = "open"]
    /\ UNCHANGED <<schedVars, hubVars, fetchVars, replayVars, durVars,
                   cacheVars>>

\* c's scheduler, top of `while True` (lines 437-440)
PcPassStart(c) ==
    /\ conn[c].pc = "start"
    /\ conn[SchedOf(c)].pass < MaxPasses
    /\ conn' = [conn EXCEPT ![SchedOf(c)].pass = @ + 1,
                            ![SchedOf(c)].first_src = FirstSrcAtPassStart,
                            ![SchedOf(c)].wall0 = now,
                            ![SchedOf(c)].pos = MakeIter(c),
                            ![c].pc = "iter"]
    /\ UNCHANGED <<schedVars, hubVars, fetchVars, replayVars, durVars,
                   cacheVars>>

\* c's scheduler calls send(payload) for message k: ws.send is awaited
\* (lines 450, 468-469)
PcStartSend(cn, c, k) ==
    [cn EXCEPT ![c].pc = "sending",
               ![c].log = Append(@, [pass |-> cn[SchedOf(c)].pass, k |-> k,
                                     at |-> now])]

\* c's scheduler: one turn of the for loop up to its first suspension, or
\* the end of the pass (lines 440-452)
PcNextMsg(c) ==
    LET s == conn[SchedOf(c)] IN
    /\ conn[c].pc = "iter"
    /\ IF s.pos = Len(src)
       THEN conn' = [conn EXCEPT ![c].pc =
                        IF BreakAfterPass THEN "done" ELSE "start"]
       ELSE LET k == s.pos + 1
                fs == IF s.first_src = None THEN src[k] ELSE s.first_src
                w0 == IF s.first_src = None THEN now ELSE s.wall0
                cn == [conn EXCEPT ![SchedOf(c)].pos = k,
                                   ![SchedOf(c)].first_src = fs,
                                   ![SchedOf(c)].wall0 = w0]
            IN  IF PacingDelay(src[k], fs, w0) > 0
                THEN conn' = [cn EXCEPT ![c].pc = "sleeping",
                                 ![SchedOf(c)].wake_at =
                                     now + PacingDelay(src[k], fs, w0)]
                ELSE conn' = PcStartSend(cn, c, k)
    /\ UNCHANGED <<schedVars, hubVars, fetchVars, replayVars, durVars,
                   cacheVars>>

\* c's asyncio.sleep(delay) returns and send(payload) is called
\* (lines 449-450)
PcWake(c) ==
    /\ conn[c].pc = "sleeping"
    /\ now >= conn[SchedOf(c)].wake_at
    /\ conn' = PcStartSend(conn, c, conn[SchedOf(c)].pos)
    /\ UNCHANGED <<schedVars, hubVars, fetchVars, replayVars, durVars,
                   cacheVars>>

\* ws.send returns on an open connection (line 469)
PcSendOk(c) ==
    /\ conn[c].pc = "sending"
    /\ conn[c].ws = "open"
    /\ conn' = [conn EXCEPT ![c].pc = "iter"]
    /\ UNCHANGED <<schedVars, hubVars, fetchVars, replayVars, durVars,
                   cacheVars>>

\* where the handler is once ws.send has raised ConnectionClosed: the
\* exception leaves _paced_send, and the handler's except clause returns
\* (lines 470-473)
AfterConnectionClosedGoesOn == "iter"
AfterConnectionClosed == "returned"

\* ws.send raises ConnectionClosed on a closed connection (lines 469-473)
PcSendClosed(c) ==
    /\ conn[c].pc = "sending"
    /\ conn[c].ws = "closed"
    /\ conn' = [conn EXCEPT ![c].pc = AfterConnectionClosed]
    /\ UNCHANGED <<schedVars, hubVars, fetchVars, replayVars, durVars,
                   cacheVars>>

\* ws.send raises another exception: it leaves _paced_send and the handler,
\* and the server closes the connection of a handler that failed
\* (lines 469-473)
PcSendError(c) ==
    /\ conn[c].pc = "sending"
    /\ conn[c].ws = "open"
    /\ conn' = [conn EXCEPT ![c].pc = "raised", ![c].ws = "closed"]
    /\ UNCHANGED <<schedVars, hubVars, fetchVars, replayVars, durVars,
                   cacheVars>>

\* the peer closes connection c, or it is lost
PcClose(c) ==
    /\ conn[c].ws = "open"
    /\ conn' = [conn EXCEPT
                   ![c].ws = "closed",
                   ![c].attempts_at_close =
                       IF conn[c].pc = "sleeping" /\ now < conn[c].wake_at
                       THEN Len(conn[c].log) ELSE None,
                   ![c].pc = IF CloseCancels(c) THEN "returned" ELSE @]
    /\ UNCHANGED <<schedVars, hubVars, fetchVars, replayVars, durVars,
                   cacheVars>>

\* the clock advances
PcTick ==
    /\ \E c \in Conns : conn[c].pc \notin {"done", "returned", "raised"}
    /\ \/ now < MaxClock
       \/ \E c \in Conns : conn[c].pc = "sleeping" /\ now < conn[c].wake_at
    /\ now' = now + 1
    /\ UNCHANGED <<src, pace, loop_forever, sched_pc, pass, pos, first_src,
                   wall0, wake_at, inflight, delivered, hubVars, fetchVars,
                   conn, replayVars, durVars,
                   cacheVars>>

\* the steps of connection c: its handler, its scheduler and its peer
ConnStep(c) ==
    \/ PcAccept(c) \/ PcPassStart(c) \/ PcNextMsg(c) \/ PcWake(c)
    \/ PcSendOk(c) \/ PcSendClosed(c) \/ PcSendError(c) \/ PcClose(c)

PerClientNext == PcTick \/ \E c \in Conns : ConnStep(c)

PerClientSpec == PerClientInit /\ [][PerClientNext]_vars

\* ---------------------------------------------------------------------
\* make_second_bars
\* ---------------------------------------------------------------------
\* the width of a bucket, resample("1S"), in the unit of the trade times
SecWidth == 2

\* the captured trades a file is made of: row id |-> the fields of its line.
\* Rows 2 and 3 carry the same time, rows 3 and 4 have volume 0, and the
\* buckets between rows 1-3 and rows 4-5 hold no trade.
TradeRow ==
    << [time |-> 0, price |-> 2, volume |-> 1, pair |-> "X"],
       [time |-> 1, price |-> 3, volume |-> 2, pair |-> "X"],
       [time |-> 1, price |-> 1, volume |-> 0, pair |-> "Y"],
       [time |-> 6, price |-> 2, volume |-> 0, pair |-> "X"],
       [time |-> 7, price |-> 4, volume |-> 1, pair |-> "Y"] >>
RowIds == 1..Len(TradeRow)

\* a file or frame: up to MaxTrades distinct rows in any order
Frames ==
    UNION {{f \in [1..n -> RowIds] : \A i, j \in 1..n : f[i] = f[j] => i = j}
           : n \in 0..MaxTrades}

\* the bucket a time falls in: [b * SecWidth, (b + 1) * SecWidth)
Bucket(t) == t \div SecWidth

IsTimeOrdered(d) ==
    \A i \in 1..(Len(d) - 1) : TradeRow[d[i]].time <= TradeRow[d[i + 1]].time

\* the rows of d in time order, rows of equal time in their order in d:
\* resample bins the frame after a stable sort of its index
RECURSIVE InsertByTime(_, _)
InsertByTime(d, r) ==
    IF d = <<>> THEN <<r>>
    ELSE IF TradeRow[r].time < TradeRow[Head(d)].time
         THEN <<r>> \o d
         ELSE <<Head(d)>> \o InsertByTime(Tail(d), r)

RECURSIVE StableSortByTime(_)
StableSortByTime(d) ==
    IF d = <<>> THEN <<>>
    ELSE InsertByTime(StableSortByTime(SubSeq(d, 1, Len(d) - 1)), d[Len(d)])

\* the rows of d that fall in bucket b, in bin order
BinRows(d, b) ==
    LET InBin(r) == Bucket(TradeRow[r].time) = b
    IN  SelectSeq(StableSortByTime(d), InBin)

RECURSIVE SumVolume(_)
SumVolume(rows) ==
    IF rows = <<>> THEN 0 ELSE TradeRow[Head(rows)].volume + SumVolume(Tail(rows))

RECURSIVE SumPriceVolume(_)
SumPriceVolume(rows) ==
    IF rows = <<>> THEN 0
    ELSE TradeRow[Head(rows)].price * TradeRow[Head(rows)].volume
         + SumPriceVolume(Tail(rows))

RECURSIVE MaxPrice(_)
MaxPrice(rows) ==
    IF Len(rows) = 1 THEN TradeRow[rows[1]].price
    ELSE LET m == MaxPrice(Tail(rows))
             p == TradeRow[Head(rows)].price
         IN  IF p > m THEN p ELSE m

RECURSIVE MinPrice(_)
MinPrice(rows) ==
    IF Len(rows) = 1 THEN TradeRow[rows[1]].price
    ELSE LET m == MinPrice(Tail(rows))
             p == TradeRow[Head(rows)].price
         IN  IF p < m THEN p ELSE m

\* .first() and .last() of a bin (lines 259, 262); None stands for NaN
FirstPrice(rows) == IF rows = <<>> THEN None ELSE TradeRow[rows[1]].price
LastPriceIsFirst(rows) == FirstPrice(rows)
LastPrice(rows) == IF rows = <<>> THEN None ELSE TradeRow[rows[Len(rows)]].price

\* vwap = pv / v.replace(0, pd.NA) (lines 267-268): <<>> stands for the
\* missing value, <<pv, v>> for the quotient pv / v
VwapUnguarded(pv, v) == <<pv, v>>
Vwap(pv, v) == IF v = 0 THEN <<>> ELSE <<pv, v>>

\* the row of the bars frame for bucket b (lines 259-270)
BarOf(d, b) ==
    LET rows == BinRows(d, b)
    IN  [bucket |-> b,
         open   |-> FirstPrice(rows),
         high   |-> IF rows = <<>> THEN None ELSE MaxPrice(rows),
         low    |-> IF rows = <<>> THEN None ELSE MinPrice(rows),
         close  |-> LastPrice(rows),
         volume |-> SumVolume(rows),
         trades |-> Len(rows),
         vwap   |-> Vwap(SumPriceVolume(rows), SumVolume(rows))]

\* the buckets resample("1S") makes a row for: every one from the bucket of
\* the earliest trade to the bucket of the latest
ResampleBins(d) ==
    LET sd == StableSortByTime(d)
        lo == Bucket(TradeRow[sd[1]].time)
        hi == Bucket(TradeRow[sd[Len(sd)]].time)
    IN  [i \in 1..(hi - lo + 1) |-> lo + i - 1]

\* make_second_bars(df) (lines 244-271)
MakeSecondBars(d) ==
    IF d = <<>> THEN <<>>
    ELSE LET bins == ResampleBins(d)
         IN  [i \in 1..Len(bins) |-> BarOf(d, bins[i])]

\* main, capture mode with --sec-bars: the frame loaded from the file just
\* written, in file order (line 621)
BarsInit ==
    /\ df \in Frames
    /\ rp_pc = "frame"
    /\ file = df /\ symbol = "" /\ ticks = FALSE
    /\ bars = <<>> /\ exported = <<>>
    /\ its = [i \in Iters |-> NoIter]
    /\ FetchIdle /\ SchedIdle /\ HubIdle /\ ConnIdle /\ DurIdle
    /\ CacheIdle

\* bars = make_second_bars(df) (line 626)
CallMakeSecondBars ==
    /\ rp_pc = "frame"
    /\ bars' = MakeSecondBars(df)
    /\ rp_pc' = "made"
    /\ UNCHANGED <<file, symbol, ticks, df, exported, its, fetchVars,
                   schedVars, hubVars, conn, durVars, cacheVars>>

\* save_parquet(bars, args.sec_bars) (line 627)
SaveSecBars ==
    /\ rp_pc = "made"
    /\ exported' = bars
    /\ rp_pc' = "saved"
    /\ UNCHANGED <<file, symbol, ticks, df, bars, its, fetchVars, schedVars,
                   hubVars, conn, durVars, cacheVars>>

BarsNext == CallMakeSecondBars \/ SaveSecBars

BarsSpec == BarsInit /\ [][BarsNext]_vars

\* ---------------------------------------------------------------------
\* The replay source: _build_df_for_replay and the generators make_iter()
\* returns, _gen_tick_messages(df) or _gen_secbar_messages(df)
\* ---------------------------------------------------------------------
\* the values of --symbol ("" when the option is absent)
Symbols == {"", "x", "X/", "Z"}

\* symbol.replace("/", "").upper() (line 384); the pairs of the file are
\* already in that form
Normalize(sym) ==
    CASE sym = "x" -> "X"
      [] sym = "X/" -> "X"
      [] OTHER -> sym

\* df[df["pair"]... == want] (line 385): the rows of the pair, in file order
FilterPair(f, sym) ==
    IF sym = "" THEN f
    ELSE LET Wanted(r) == TradeRow[r].pair = Normalize(sym)
         IN  SelectSeq(f, Wanted)

\* df.sort_index() (line 386): the rows in index order; the order among
\* rows of equal time is whatever the sort leaves
SortIndexKeepsFileOrder(d) == {d}
SortIndex(d) ==
    {p \in [1..Len(d) -> RowIds] :
        /\ \A i \in 1..Len(d) : \E j \in 1..Len(d) : p[j] = d[i]
        /\ IsTimeOrdered(p)}

\* `if df.empty: return df` (lines 381-382): the frame of an empty file has
\* no column and no index, and is returned as loaded
ReturnsEmptyFrameNever(f) == FALSE
ReturnsEmptyFrame(f) == f = <<>>

\* bars.dropna(subset=["close"], how="all").sort_index() (line 409)
DropEmptyBars(bs) ==
    LET HasClose(b) == b.close # None
    IN  SelectSeq(bs, HasClose)

\* the pairs _gen_tick_messages(df) yields (lines 388-402)
GenTickMessages(d) ==
    [i \in 1..Len(d) |->
        [src_ts |-> TradeRow[d[i]].time,
         payload |-> [type |-> "tick", pair |-> TradeRow[d[i]].pair,
                      price |-> TradeRow[d[i]].price,
                      volume |-> TradeRow[d[i]].volume,
                      time |-> TradeRow[d[i]].time]]]

\* the pairs _gen_secbar_messages(df) yields (lines 404-429)
GenSecbarMessages(d) ==
    LET bs == MakeSecondBars(d)
    IN  IF bs = <<>> THEN <<>>
        ELSE LET kept == DropEmptyBars(bs)
             IN  [i \in 1..Len(kept) |->
                    [src_ts |-> kept[i].bucket * SecWidth,
                     payload |-> [type |-> "secbar",
                                  ts |-> kept[i].bucket * SecWidth,
                                  pair |-> TradeRow[d[1]].pair,
                                  open |-> kept[i].open, high |-> kept[i].high,
                                  low |-> kept[i].low, close |-> kept[i].close,
                                  volume |-> kept[i].volume,
                                  trades |-> kept[i].trades,
                                  vwap |-> kept[i].vwap]]]

\* what make_iter() iterates over (lines 464-465, 522-523)
Messages == IF ticks THEN GenTickMessages(df) ELSE GenSecbarMessages(df)

\* where a new generator starts: before the first row of the frame
GenStartWhereOtherIs(i) ==
    IF \E j \in Iters \ {i} : its[j].pos > 0
    THEN CHOOSE n \in 1..Len(Messages) : \E j \in Iters \ {i} : its[j].pos = n
    ELSE 0
GenStart(i) == 0

ReplayInit ==
    /\ file \in Frames
    /\ symbol \in Symbols
    /\ ticks \in BOOLEAN
    /\ rp_pc = "load"
    /\ df = <<>> /\ bars = <<>> /\ exported = <<>>
    /\ its = [i \in Iters |-> NoIter]
    /\ FetchIdle /\ SchedIdle /\ HubIdle /\ ConnIdle /\ DurIdle
    /\ CacheIdle

\* df = _build_df_for_replay(args.replay, args.symbol) (lines 377-386).
\* Filtering a frame without a "pair" column raises KeyError.
BuildDf ==
    /\ rp_pc = "load"
    /\ IF ReturnsEmptyFrame(file)
       THEN df' = file /\ rp_pc' = "ready"
       ELSE IF file = <<>> /\ symbol # ""
            THEN df' = df /\ rp_pc' = "raised"
            ELSE /\ df' \in SortIndex(FilterPair(file, symbol))
                 /\ rp_pc' = "ready"
    /\ UNCHANGED <<file, symbol, ticks, bars, exported, its, fetchVars,
                   schedVars, hubVars, conn, durVars, cacheVars>>

\* make_iter() is called: by a new connection's scheduler, or at the top of
\* a pass (lines 440, 464-465)
MakeIterCall(i) ==
    /\ rp_pc = "ready"
    /\ its[i].pc \in {"none", "exhausted"}
    /\ its[i].made < MaxPasses
    /\ its' = [its EXCEPT ![i] = [pc |-> "iterating", pos |-> GenStart(i),
                                  out |-> <<>>, prev |-> its[i].out,
                                  made |-> its[i].made + 1]]
    /\ UNCHANGED <<file, symbol, ticks, rp_pc, df, bars, exported, fetchVars,
                   schedVars, hubVars, conn, durVars, cacheVars>>

\* next() on generator i: the next pair, or StopIteration
IterNext(i) ==
    /\ its[i].pc = "iterating"
    /\ IF its[i].pos < Len(Messages)
       THEN its' = [its EXCEPT ![i].pos = @ + 1,
                               ![i].out = Append(@, Messages[its[i].pos + 1])]
       ELSE its' = [its EXCEPT ![i].pc = "exhausted"]
    /\ UNCHANGED <<file, symbol, ticks, rp_pc, df, bars, exported, fetchVars,
                   schedVars, hubVars, conn, durVars, cacheVars>>

ReplayNext == BuildDf \/ \E i \in Iters : MakeIterCall(i) \/ IterNext(i)

ReplaySpec == ReplayInit /\ [][ReplayNext]_vars

\* ---------------------------------------------------------------------
\* parse_duration_to_seconds
\* ---------------------------------------------------------------------
\* the characters a duration expression is made of
DurChars == {"0", "1", "s", "M", "x", "!", " "}
DurExprs == UNION {[1..n -> DurChars] : n \in 0..MaxDurLen}

IsDigit(ch) == ch \in {"0", "1", "2", "3", "4", "5", "6", "7", "8", "9"}
IsSpace(ch) == ch = " "
\* [a-z], the expression having been lowered
IsLetter(ch) == ch \in {"s", "m", "x", "h", "d"}

\* str.lower() and str.strip() (line 60)
LowerChar(ch) == IF ch = "M" THEN "m" ELSE ch
Lower(e) == [i \in 1..Len(e) |-> LowerChar(e[i])]
Strip(e) ==
    LET inked == {i \in 1..Len(e) : ~IsSpace(e[i])}
    IN  IF inked = {} THEN <<>>
        ELSE SubSeq(e, CHOOSE i \in inked : \A j \in inked : i <= j,
                       CHOOSE i \in inked : \A j \in inked : i >= j)

\* int(num) of a string of digits
DigitValue(ch) ==
    CASE ch = "0" -> 0 [] ch = "1" -> 1 [] ch = "2" -> 2 [] ch = "3" -> 3
      [] ch = "4" -> 4 [] ch = "5" -> 5 [] ch = "6" -> 6 [] ch = "7" -> 7
      [] ch = "8" -> 8 [] ch = "9" -> 9
RECURSIVE IntOf(_)
IntOf(ds) ==
    IF ds = <<>> THEN 0
    ELSE 10 * IntOf(SubSeq(ds, 1, Len(ds) - 1)) + DigitValue(ds[Len(ds)])

\* re.fullmatch(r"\d+", s) (line 62)
IsPlainInteger(e) == e # <<>> /\ \A i \in 1..Len(e) : IsDigit(e[i])

\* the end of the longest run from position i of characters of one class
DigitRunEnd(e, i) ==
    CHOOSE j \in i..Len(e) :
        /\ \A k \in i..j : IsDigit(e[k])
        /\ j = Len(e) \/ ~IsDigit(e[j + 1])
LetterRunEnd(e, i) ==
    CHOOSE j \in i..Len(e) :
        /\ \A k \in i..j : IsLetter(e[k])
        /\ j = Len(e) \/ ~IsLetter(e[j + 1])
\* the first position from i on that holds no space (Len(e) + 1 if none)
SkipSpaces(e, i) ==
    CHOOSE j \in i..(Len(e) + 1) :
        /\ \A k \in i..(j - 1) : IsSpace(e[k])
        /\ j = Len(e) + 1 \/ ~IsSpace(e[j])

\* re.findall(r"(\d+)\s*([a-z]+)", s) from position i on (line 65): the
\* matches from left to right, each with the positions it covers; a
\* position where no match starts is passed over
RECURSIVE FindAll(_, _)
FindAll(e, i) ==
    IF i > Len(e) THEN <<>>
    ELSE IF ~IsDigit(e[i]) THEN FindAll(e, i + 1)
    ELSE LET j == DigitRunEnd(e, i)
             k == SkipSpaces(e, j + 1)
         IN  IF k <= Len(e) /\ IsLetter(e[k])
             THEN LET l == LetterRunEnd(e, k)
                  IN  <<[num |-> SubSeq(e, i, j), unit |-> SubSeq(e, k, l),
                         from |-> i, to |-> l]>> \o FindAll(e, l + 1)
             ELSE FindAll(e, i + 1)

\* the unit names and their seconds (lines 67-74)
SecondUnits ==
    {<<"s">>, <<"s", "e", "c">>, <<"s", "e", "c", "s">>,
     <<"s", "e", "c", "o", "n", "d">>, <<"s", "e", "c", "o", "n", "d", "s">>}
MinuteUnits ==
    {<<"m">>, <<"m", "i", "n">>, <<"m", "i", "n", "s">>,
     <<"m", "i", "n", "u", "t", "e">>, <<"m", "i", "n", "u", "t", "e", "s">>}
HourUnits ==
    {<<"h">>, <<"h", "r">>, <<"h", "r", "s">>, <<"h", "o", "u", "r">>,
     <<"h", "o", "u", "r", "s">>}
DayUnits ==
    {<<"d">>, <<"d", "a", "y">>, <<"d", "a", "y", "s">>}
KnownUnit(u) == u \in SecondUnits \cup MinuteUnits \cup HourUnits \cup DayUnits
UnitSeconds(u) ==
    CASE u \in SecondUnits -> 1
      [] u \in MinuteUnits -> 60
      [] u \in HourUnits -> 3600
      [] u \in DayUnits -> 86400

\* the for loop over the matches (lines 64-76): the total, or that a unit
\* was unknown
RECURSIVE TotalOf(_)
TotalOf(toks) ==
    IF toks = <<>> THEN [bad |-> FALSE, total |-> 0]
    ELSE IF ~KnownUnit(Head(toks).unit) THEN [bad |-> TRUE, total |-> 0]
    ELSE LET rest == TotalOf(Tail(toks))
         IN  [bad |-> rest.bad,
              total |-> IntOf(Head(toks).num) * UnitSeconds(Head(toks).unit)
                        + rest.total]

\* parse_duration_to_seconds(expr): [raised, value]
ParseDurationToSeconds(expr) ==
    IF expr = <<>> THEN [raised |-> TRUE, value |-> None]
    ELSE LET e == Lower(Strip(expr))
         IN  IF IsPlainInteger(e) THEN [raised |-> FALSE, value |-> IntOf(e)]
             ELSE LET t == TotalOf(FindAll(e, 1))
                  IN  IF t.bad \/ t.total <= 0
                      THEN [raised |-> TRUE, value |-> None]
                      ELSE [raised |-> FALSE, value |-> t.total]

\* main: parse_duration_to_seconds(args.last) is called (line 589)
DurInit ==
    /\ dur_in \in DurExprs
    /\ dur_pc = "call"
    /\ dur_out = None
    /\ FetchIdle /\ SchedIdle /\ HubIdle /\ ConnIdle /\ ReplayIdle
    /\ CacheIdle

ParseDuration ==
    /\ dur_pc = "call"
    /\ LET res == ParseDurationToSeconds(dur_in)
       IN  /\ dur_pc' = IF res.raised THEN "raised" ELSE "returned"
           /\ dur_out' = res.value
    /\ UNCHANGED <<dur_in, fetchVars, schedVars, hubVars, conn, replayVars,
                   cacheVars>>

DurSpec == DurInit /\ [][ParseDuration]_vars

\* ---------------------------------------------------------------------
\* BacktestOrchestrator: download_days, _download_day and the cache index
\* ---------------------------------------------------------------------
\* datetimes are integers, HoursPerDay of them to a day;
\* date.strftime("%Y-%m-%d") keeps the day (lines 78, 177).  The strings it
\* gives sort as their days do.
HoursPerDay == 2
DateTimes == 2..4
DateStr(date) == date \div HoursPerDay

\* the `dates` argument: any list of datetimes (lines 135, 151-157)
DateLists == UNION {[1..n -> DateTimes] : n \in 0..MaxDates}

\* how the run of the capture script and the checks after it end
\* (lines 87-130): "ok" (a valid file, True), "fail" (script missing, return
\* code not 0, timeout, exception or no file: False), "bad_gzip" (a file
\* that cannot be read: False)
Outcomes == {"ok", "fail", "bad_gzip"}

\* list.sort() of the date strings (line 181)
InsertSorted(q, d) ==
    LET k == Cardinality({j \in 1..Len(q) : q[j] <= d})
    IN  SubSeq(q, 1, k) \o <<d>> \o SubSeq(q, k + 1, Len(q))

RECURSIVE SortDates(_)
SortDates(q) ==
    IF q = <<>> THEN <<>>
    ELSE InsertSorted(SortDates(SubSeq(q, 1, Len(q) - 1)), q[Len(q)])

\* the for loop of lines 176-179 from position k: a date string is appended
\* unless it is in the list already
RECURSIVE AppendMissing(_, _, _)
AppendMissing(q, dates, k) ==
    IF k > Len(dates) THEN q
    ELSE LET d == DateStr(dates[k])
         IN  AppendMissing(IF \E j \in 1..Len(q) : q[j] = d
                           THEN q ELSE Append(q, d),
                           dates, k + 1)

\* _download_day(symbol, date, force) finds the file cached (lines 78-83)
Cached(sym, date, force) == <<sym, DateStr(date)>> \in data_files /\ ~force

\* the orchestrator is constructed with an empty data directory
\* (lines 36-49)
CacheInit ==
    /\ CacheIdle
    /\ FetchIdle /\ SchedIdle /\ HubIdle /\ ConnIdle /\ ReplayIdle /\ DurIdle

\* an orchestrator is constructed, which loads the index from disk
\* (lines 47-57), and download_days(symbol, dates, force=force) is called
\* (lines 132-160)
CallDownloadDays(sym, dates, force) ==
    /\ dl.pc = "idle"
    /\ index' = IF index_file.exists THEN index_file.content ELSE EmptyIndex
    /\ dl' = [pc |-> "loop", symbol |-> sym, dates |-> dates, force |-> force,
              i |-> 0, success |-> 0, failed |-> 0]
    /\ UNCHANGED <<index_file, data_files, returned_true,
                   fetchVars, schedVars, hubVars, conn, replayVars, durVars>>

\* one turn of `for date in dates`: _download_day and the count of its
\* result (lines 164-168, 68-130)
DownloadDay(outcome) ==
    /\ dl.pc = "loop"
    /\ dl.i < Len(dl.dates)
    /\ LET date == dl.dates[dl.i + 1]
           key == <<dl.symbol, DateStr(date)>>
           result == Cached(dl.symbol, date, dl.force) \/ outcome = "ok"
       IN  /\ data_files' =
                 IF Cached(dl.symbol, date, dl.force) \/ outcome = "fail"
                 THEN data_files ELSE data_files \cup {key}
           /\ returned_true' =
                 IF result THEN returned_true \cup {key} ELSE returned_true
           /\ dl' = [dl EXCEPT !.i = @ + 1,
                               !.success = IF result THEN @ + 1 ELSE @,
                               !.failed = IF result THEN @ ELSE @ + 1]
    /\ UNCHANGED <<index, index_file,
                   fetchVars, schedVars, hubVars, conn, replayVars, durVars>>

\* after the loop: the index is updated with every date of `dates`, sorted
\* and saved, and the counts are returned (lines 172-184)
UpdateIndex ==
    /\ dl.pc = "loop"
    /\ dl.i = Len(dl.dates)
    /\ LET old == IF index[dl.symbol].present
                  THEN index[dl.symbol].downloaded_dates ELSE <<>>
           new == [index EXCEPT ![dl.symbol] =
                      [present |-> TRUE,
                       downloaded_dates |->
                           SortDates(AppendMissing(old, dl.dates, 1))]]
       IN  /\ index' = new
           /\ index_file' = [exists |-> TRUE, content |-> new]
    /\ dl' = [dl EXCEPT !.pc = "idle"]
    /\ UNCHANGED <<data_files, returned_true,
                   fetchVars, schedVars, hubVars, conn, replayVars, durVars>>

CacheNext ==
    \/ \E sym \in CacheSymbols, dates \in DateLists, force \in BOOLEAN :
           CallDownloadDays(sym, dates, force)
    \/ \E outcome \in Outcomes : DownloadDay(outcome)
    \/ UpdateIndex

CacheSpec == CacheInit /\ [][CacheNext]_vars

\* ---------------------------------------------------------------------
\* Properties of fetch_trades_for_day
\* ---------------------------------------------------------------------
TimeOfEmitted(i) == TradeTime[emitted[i]]
Count(seq, x) == Cardinality({i \in 1..Len(seq) : seq[i] = x})

\* C1: when the page ceiling ends the loop while the cursor is still before
\* the window end, the fetch does not end normally (it must raise instead).
C1_CeilingIsFatal ==
    ~(fetch_pc = "done" /\ exit_by = "while" /\ pages >= max_pages
      /\ since < end_ns)

\* C2: the since cursor never decreases: a step changes it only to the
\* page's `last`, and only when that `last` is strictly greater.
C2_SinceNeverDecreases ==
    [][/\ since' >= since
       /\ since' # since => (since' = resp_last' /\ resp_last' > since)
      ]_vars

\* C3: every in-window row of a fetched page has been emitted exactly once
\* by the time its page is processed: none twice, none dropped.
C3_EmittedExactlyOnce ==
    \A id \in fetched :
        (day_start <= TradeTime[id] /\ TradeTime[id] < day_end)
            => Count(emitted, id) = 1

\* C4: the fetch issues at most max_pages requests and eventually ends
\* (returns or raises), whatever the server answers.
C4_TerminatesWithinCeiling ==
    /\ [](pages <= max_pages)
    /\ <>(fetch_pc \in {"done", "raised"})

\* C4 witness: a server that repeated the same cursor on every page, with
\* rows each time, was stopped by the ceiling.
C4_Witness ==
    /\ fetch_pc = "done" /\ pages = max_pages /\ since = start_ns
    /\ exit_by = "while" /\ Len(emitted) >= max_pages

\* C5: every emitted trade has day_start <= time < day_end.
C5_EmittedInWindow ==
    \A i \in 1..Len(emitted) :
        day_start <= TimeOfEmitted(i) /\ TimeOfEmitted(i) < day_end

\* C5 witness: pages carried a row before the window and a row at the
\* window end, and something was emitted.
C5_Witness ==
    /\ emitted # <<>>
    /\ \E id \in fetched : TradeTime[id] < day_start
    /\ \E id \in fetched : TradeTime[id] = day_end

\* C6: when every page had its rows in time order, the emitted times are
\* non-decreasing over the whole emission sequence.
C6_EmittedNonDecreasing ==
    pages_sorted =>
        \A i \in 1..Len(emitted) : \A j \in i..Len(emitted) :
            TimeOfEmitted(i) <= TimeOfEmitted(j)

\* C7: a failed request or a response with an error field makes the fetch
\* raise at that page, with no trade emitted for it; once raised, no further
\* request is issued and no further trade is emitted.
C7_ErrorIsFatal ==
    [][/\ (fetch_pc = "request" /\ resp_kind' # "ok")
            => (fetch_pc' = "raised" /\ pages' = pages /\ emitted' = emitted)
       /\ (fetch_pc = "raised")
            => (fetch_pc' = "raised" /\ pages' = pages /\ emitted' = emitted)
      ]_vars

\* C7 witness: an error field arrived on a later page, after trades had
\* been emitted.
C7_Witness ==
    /\ fetch_pc = "raised" /\ resp_kind = "apierror"
    /\ pages >= 2 /\ emitted # <<>>

\* ---------------------------------------------------------------------
\* Properties of _paced_send
\* ---------------------------------------------------------------------
\* the deliveries of the current pass
CurrentPass == {i \in 1..Len(delivered) : delivered[i].pass = pass}

\* C8: for pace > 0, every delivery of the current pass started at or after
\* wall0 + (src_ts - first_src)/pace; and a message reached while that time
\* is still ahead is suspended, its sleep ending exactly at that time.
C8_NotBeforeDue ==
    /\ [](pace > 0 =>
            \A i \in CurrentPass :
                (delivered[i].at - wall0) * pace
                    >= src[delivered[i].k] - first_src)
    /\ [][(/\ pace > 0 /\ sched_pc = "iter" /\ pos' = pos + 1
           /\ (now - wall0') * pace < src[pos'] - first_src')
            => /\ sched_pc' = "sleeping"
               /\ (wake_at' - wall0') * pace = src[pos'] - first_src'
               /\ delivered' = delivered
          ]_vars

\* C8 witness: the second message, later in source time than the first, was
\* suspended and then delivered exactly when it was due.
C8_Witness ==
    /\ pace > 1 /\ pass = 1 /\ Len(delivered) >= 2
    /\ src[2] > src[1]
    /\ (delivered[2].at - wall0) * pace = src[2] - first_src

\* C9: the callbacks of a pass are started in source order, each message
\* once, and a callback is started only when no earlier one is in flight.
C9_InOrderOneAtATime ==
    /\ Cardinality(inflight) <= 1
    /\ \A c \in inflight :
          /\ delivered # <<>>
          /\ c = <<delivered[Len(delivered)].pass, delivered[Len(delivered)].k>>
    /\ \A i \in 1..Len(delivered) :
          IF i = 1 \/ delivered[i].pass # delivered[IF i = 1 THEN 1 ELSE i - 1].pass
          THEN delivered[i].k = 1
          ELSE delivered[i].k = delivered[i - 1].k + 1

\* C9 witness: the third callback of a pass is in flight.
C9_Witness ==
    /\ Len(delivered) >= 3 /\ delivered[3].pass = 1
    /\ inflight = {<<1, 3>>}

\* C10: with loop disabled there is one pass only; when _paced_send has
\* returned, the callback has been started exactly once per message, in
\* order; and unless a callback fails, _paced_send does return.
C10_OnePassThenDone ==
    /\ [](~loop_forever => pass <= 1)
    /\ []((~loop_forever /\ sched_pc = "done") =>
            /\ Len(delivered) = Len(src)
            /\ \A i \in 1..Len(delivered) : delivered[i].k = i
            /\ inflight = {})
    /\ (~loop_forever => <>(sched_pc \in {"done", "failed"}))

\* C10 witness: a pass over a full-length source with loop disabled ended.
C10_Witness ==
    /\ ~loop_forever /\ sched_pc = "done"
    /\ Len(src) >= 3 /\ Len(delivered) = Len(src)

\* the message numbers of the callbacks started in pass p, in order
RECURSIVE KsOfPass(_, _)
KsOfPass(log, p) ==
    IF log = <<>> THEN <<>>
    ELSE (IF Head(log).pass = p THEN <<Head(log).k>> ELSE <<>>)
         \o KsOfPass(Tail(log), p)
UpTo(n) == [i \in 1..n |-> i]

\* C11: with loop enabled _paced_send never returns; every pass before the
\* current one delivered the complete sequence, and the current pass
\* delivers it again from the first message.
C11_LoopsForever ==
    loop_forever =>
        /\ sched_pc # "done"
        /\ \A p \in 1..(pass - 1) : KsOfPass(delivered, p) = UpTo(Len(src))
        /\ pass >= 1 =>
              KsOfPass(delivered, pass)
                  = UpTo(IF sched_pc = "sleeping" THEN pos - 1 ELSE pos)

\* C11 witness: after a complete first pass, the second pass has delivered
\* its second message.
C11_Witness ==
    /\ loop_forever /\ pass = 2 /\ Len(src) >= 2
    /\ KsOfPass(delivered, 2) = <<1, 2>>

\* C12: once a pass has reached its first message, its anchors are that
\* message's timestamp and the clock at which the message was reached, the
\* message was delivered at that very clock value; no anchor survives the
\* start of a pass, and the first message is never suspended.
C12_FirstMessageAnchors ==
    /\ first_src # None =>
          /\ pos >= 1
          /\ first_src = src[1]
          /\ \E i \in CurrentPass :
                delivered[i].k = 1 /\ delivered[i].at = wall0
    /\ (sched_pc = "sleeping" => pos > 1)

\* C12 witness: the second pass is anchored later than the first pass was.
C12_Witness ==
    /\ pass = 2 /\ pace > 0 /\ first_src # None
    /\ delivered[1].at < wall0
    /\ sched_pc = "sleeping"

\* C13: for pace <= 0 the scheduler is never in a pacing sleep, and every
\* message is delivered in the step in which it is taken from the source.
C13_NoPacingWhenUnthrottled ==
    /\ [](pace <= 0 => sched_pc # "sleeping")
    /\ [][(pace <= 0 /\ pos' = pos + 1)
            => /\ Len(delivered') = Len(delivered) + 1
               /\ delivered'[Len(delivered')].k = pos'
               /\ delivered'[Len(delivered')].at = now
          ]_vars

\* C13 witness: two messages two source seconds apart were delivered at the
\* same clock value.
C13_Witness ==
    /\ pace <= 0 /\ Len(delivered) >= 2
    /\ src[2] > src[1]
    /\ delivered[2].at = delivered[1].at

\* C28: below the page ceiling, the loop stops issuing requests after a page
\* exactly when the cursor failed to advance (`last` missing or not greater
\* than since) and the page had no rows, or the cursor failed to advance and
\* the last row of the page is at or past the window end, or the cursor has
\* reached the window end; otherwise it requests another page.
C28_StopConditions ==
    [][\A last \in Lasts, rows \in Pages :
          (Response("ok", last, rows) /\ pages < max_pages) =>
              LET lts == LastTradeTs(rows)
                  stuck == last = None \/ last <= since
                  stop == \/ stuck /\ lts = None
                          \/ stuck /\ lts # None /\ lts >= day_end
                          \/ since' >= end_ns
              IN  (fetch_pc' = "done" \/ since' >= end_ns) <=> stop]_vars

\* the scheduled time of message k under the anchors fs and w0 (pace > 0)
DueAt(k, fs, w0) == w0 + (src[k] - fs) \div pace

\* C29: for pace > 0, a message reached when its scheduled time
\* wall0 + (src_ts - first_src) / pace has already passed is delivered at
\* once, with no suspension; otherwise the scheduler is suspended until
\* exactly that time.  The anchors stay fixed during the pass, so a late
\* delivery does not move the scheduled time of any later message.
C29_LateIsNotCompounded ==
    [][pace > 0 =>
          /\ (sched_pc = "iter" /\ pos' = pos + 1) =>
                IF now >= DueAt(pos', first_src', wall0')
                THEN /\ sched_pc' = "sending"
                     /\ Len(delivered') = Len(delivered) + 1
                     /\ delivered'[Len(delivered')].at = now
                ELSE /\ sched_pc' = "sleeping"
                     /\ wake_at' = DueAt(pos', first_src', wall0')
                     /\ delivered' = delivered
          /\ (pass' = pass /\ first_src # None) =>
                (first_src' = first_src /\ wall0' = wall0)]_vars

\* the third message of a pass, scheduled later than the second, is being
\* delivered in the same instant as the second was: the second was late
\* enough for the third to be due already
C29_Witness ==
    /\ pace > 0
    /\ sched_pc = "sending"
    /\ pos = 3
    /\ src[3] > src[2]
    /\ Len(delivered) >= 2
    /\ delivered[Len(delivered)].k = 3
    /\ delivered[Len(delivered) - 1].k = 2
    /\ delivered[Len(delivered)].at = delivered[Len(delivered) - 1].at
    /\ now > DueAt(3, first_src, wall0)

\* ---------------------------------------------------------------------
\* Properties of ws_serve_shared
\* ---------------------------------------------------------------------
\* the connections the running broadcast has a send task for
Tasked == {c \in Conns : tasks[c] # "none"}

\* C14: in shared mode at most one party holds clients_lock at a time; the
\* subscriber set changes only in a step of the handler that holds the lock,
\* the snapshot is taken only by the broadcast that holds it and equals the
\* set at that moment, and while the fan-out is in progress its targets and
\* the connections it has tasks for stay as snapshotted whatever joins or
\* leaves meanwhile.
C14_SetUnderLock ==
    /\ [](Cardinality(lock_holders) <= 1)
    /\ [][/\ clients' # clients =>
                \E c \in Conns :
                    /\ lock_holders = {c}
                    /\ lock_holders' = {}
                    /\ clients' \in {clients \cup {c}, clients \ {c}}
          /\ (targets' # targets /\ bc_pc # "cleanup") =>
                /\ lock_holders = {"bcast"}
                /\ targets' = clients
          /\ (bc_pc = "waiting" /\ bc_pc' \in {"waiting", "cleanup"}) =>
                /\ targets' = targets
                /\ Tasked' = Tasked
                /\ Tasked = targets]_vars

\* a fan-out in progress while a subscriber has joined and another has left
\* since its snapshot
C14_Witness ==
    /\ bc_pc = "waiting"
    /\ \E c \in Conns : c \in clients /\ c \notin targets
    /\ \E c \in Conns : c \in targets /\ c \notin clients

\* C15: in shared mode a subscriber that joins after N broadcasts is never
\* sent any of those N: every message sent to it is one whose snapshot was
\* taken after it joined, and a message is sent to it only by the broadcast
\* step that snapshots a set it is a member of.
C15_LateJoinSeesOnlyLater ==
    /\ [](\A c \in Conns : \A i \in sent[c] :
              joined_at[c] # None /\ i > joined_at[c])
    /\ [][\A c \in Conns :
              sent'[c] # sent[c] =>
                  /\ c \in clients
                  /\ lock_holders = {"bcast"}
                  /\ sent'[c] = sent[c] \cup {snaps + 1}]_vars

\* a subscriber that joined after at least one broadcast has been sent a
\* message, and that message is a later one
C15_Witness ==
    \E c \in Conns :
        /\ joined_at[c] >= 1
        /\ sent[c] # {}
        /\ \A i \in sent[c] : i > joined_at[c]

\* C17: in shared mode nothing a subscriber does, and no state of the
\* subscriber set (the empty set included), aborts, restarts or repositions
\* the scheduler: no send failure is raised into it; its position and anchors
\* change only in its own steps, by one message forward or to the start of
\* the next pass once the pass has ended, never in a step that changes the
\* hub; and it stops only at the end of a pass with looping disabled.
C17_SchedulerUndisturbed ==
    /\ [](sched_pc # "failed")
    /\ [](sched_pc = "done" => ~loop_forever /\ pos = Len(src))
    /\ [][/\ <<pass, pos, first_src, wall0>>' # <<pass, pos, first_src, wall0>>
                => /\ hubVars' = hubVars
                   /\ \/ sched_pc = "iter" /\ pass' = pass /\ pos' = pos + 1
                      \/ /\ sched_pc = "start" /\ pass' = pass + 1 /\ pos' = 0
                         /\ pass = 0 \/ (pos = Len(src) /\ loop_forever)
          /\ (sched_pc = "sending" /\ sched_pc' # "sending")
                => /\ sched_pc' = "iter"
                   /\ bc_pc' = "idle"
                   /\ UNCHANGED <<pass, pos, first_src, wall0>>
          /\ (sched_pc = "sleeping" /\ sched_pc' # "sleeping")
                => sched_pc' = "sending" /\ now >= wake_at
          /\ sched_pc' = "done" => sched_pc \in {"iter", "done"}]_vars

\* the send of the second message of a pass to a subscriber has failed, the
\* broadcast has closed that connection, and the scheduler is still where it
\* was, awaiting its callback
C17_Witness ==
    /\ bc_pc = "cleanup"
    /\ \E c \in Conns : tasks[c] = "cleaned"
    /\ sched_pc = "sending"
    /\ pos = 2

\* C18: in shared mode the sends of one message are started together, one
\* task per subscriber of the snapshot and none for anyone else; a send that
\* fails changes no other subscriber's send, and a pending send to an open
\* subscriber can complete whatever the state of the other sends and
\* connections.
C18_ConcurrentFanOut ==
    /\ [][/\ (bc_pc = "locked" /\ bc_pc' = "waiting") =>
                \A c \in Conns :
                    tasks'[c] = IF c \in clients THEN "pending" ELSE "none"
          /\ \A c \in Conns :
                (tasks[c] = "pending" /\ tasks'[c] # "pending") =>
                    \A d \in Conns \ {c} : tasks'[d] = tasks[d]
          /\ \A c \in Conns :
                (tasks[c] # "pending" /\ tasks'[c] = "pending") =>
                    bc_pc = "locked"]_vars
    /\ [](\A c \in Conns :
              (tasks[c] = "pending" /\ ws_state[c] = "open") =>
                  ENABLED SendOk(c))

\* one message's send to a closed subscriber has failed and its send to the
\* other subscriber has succeeded
C18_Witness ==
    \E c, d \in Conns :
        /\ c # d
        /\ bc_pc = "waiting"
        /\ ws_state[c] = "closed"
        /\ tasks[c] = "exc"
        /\ tasks[d] = "ok"

\* ---------------------------------------------------------------------
\* Properties of ws_serve_per_client
\* ---------------------------------------------------------------------
\* C16: in per-subscriber mode a step of connection A (its accept, its
\* scheduler, its send returning or failing, its close) leaves everything of
\* any other connection B unchanged: B's position, anchors and the log of the
\* messages sent to it with their times; and B's scheduler can always take
\* its next step whatever state A is in.
C16_ConnectionsIsolated ==
    /\ [][\A c \in Conns : \A d \in Conns \ {c} :
              (conn'[c].pc # conn[c].pc \/ conn'[c].ws # conn[c].ws)
                  => conn'[d] = conn[d]]_vars
    /\ [](\A c \in Conns :
              /\ conn[c].pc = "iter" => ENABLED PcNextMsg(c)
              /\ (conn[c].pc = "sleeping" /\ now >= conn[c].wake_at)
                    => ENABLED PcWake(c)
              /\ (conn[c].pc = "sending" /\ conn[c].ws = "open")
                    => ENABLED PcSendOk(c))

\* one connection was closed mid-stream and its handler has returned after
\* one message, while the other was sent the whole source and finished
C16_Witness ==
    \E c, d \in Conns :
        /\ c # d
        /\ conn[c].ws = "closed"
        /\ conn[c].pc = "returned"
        /\ Len(conn[c].log) = 2
        /\ conn[d].pc = "done"
        /\ Len(conn[d].log) = Len(src)

\* C19: in per-subscriber mode, once a connection has closed while its
\* scheduler was suspended in a pacing delay that had not yet elapsed, the
\* scheduler makes no further call of the send callback.
C19_CloseUnwindsDelay ==
    \A c \in Conns :
        conn[c].attempts_at_close # None =>
            /\ Len(conn[c].log) = conn[c].attempts_at_close
            /\ conn[c].pc # "sending"

\* C20: in per-subscriber mode every connection's scheduler starts each pass
\* before the first message of the source with no anchor, takes its anchors
\* (the first message's timestamp and the clock) when it reaches that first
\* message, and the first message it sends is message 1 of pass 1; its
\* position and anchors change only in its own scheduler's steps.
C20_OwnSchedulerFromStart ==
    /\ [](\A c \in Conns :
              conn[c].log # <<>> =>
                  conn[c].log[1].k = 1 /\ conn[c].log[1].pass = 1)
    /\ [][\A c \in Conns :
              /\ (conn[c].pc = "start" /\ conn'[c].pc = "iter") =>
                    /\ conn'[c].pos = 0
                    /\ conn'[c].first_src = None
              /\ (conn[c].first_src = None /\ conn'[c].first_src # None) =>
                    /\ conn'[c].pos = 1
                    /\ conn'[c].first_src = src[1]
                    /\ conn'[c].wall0 = now
              /\ <<conn'[c].pos, conn'[c].first_src, conn'[c].wall0>>
                     # <<conn[c].pos, conn[c].first_src, conn[c].wall0>>
                    => /\ conn[c].pc \in {"start", "iter"}
                       /\ conn'[c].pc # conn[c].pc]_vars

\* two connections accepted at different times are each at their own
\* position with their own anchor, both having started at message 1
C20_Witness ==
    \E c, d \in Conns :
        /\ conn[c].log # <<>> /\ conn[d].log # <<>>
        /\ conn[c].log[1].at < conn[d].log[1].at
        /\ conn[c].wall0 < conn[d].wall0
        /\ conn[c].pos = 2 /\ conn[d].pos = 1

\* ---------------------------------------------------------------------
\* Properties of make_second_bars
\* ---------------------------------------------------------------------
\* the positions in frame d of the trades of bucket b
IdxOfBucket(d, b) == {i \in 1..Len(d) : Bucket(TradeRow[d[i]].time) = b}

\* the buckets that hold at least one trade of d
Populated(d) == {Bucket(TradeRow[d[i]].time) : i \in 1..Len(d)}

MinOf(S) == CHOOSE x \in S : \A y \in S : x <= y
MaxOf(S) == CHOOSE x \in S : \A y \in S : x >= y

\* the sums of volume and of price * volume over the trades at positions S
RECURSIVE VolumeAt(_, _)
VolumeAt(d, S) ==
    IF S = {} THEN 0
    ELSE LET i == CHOOSE x \in S : TRUE
         IN  TradeRow[d[i]].volume + VolumeAt(d, S \ {i})

RECURSIVE PriceVolumeAt(_, _)
PriceVolumeAt(d, S) ==
    IF S = {} THEN 0
    ELSE LET i == CHOOSE x \in S : TRUE
         IN  TradeRow[d[i]].price * TradeRow[d[i]].volume
             + PriceVolumeAt(d, S \ {i})

\* C21: for a time-ordered trade sequence, every populated bucket has a bar
\* whose open is the price of the bucket's first trade in arrival order,
\* close the price of its last, high and low the largest and smallest price,
\* volume the sum of the volumes and trades the number of its trades.
C21_BarFields ==
    (rp_pc \in {"made", "saved"} /\ IsTimeOrdered(df)) =>
        \A b \in Populated(df) :
            LET S == IdxOfBucket(df, b)
                P == {TradeRow[df[i]].price : i \in S}
            IN  /\ \E k \in 1..Len(bars) : bars[k].bucket = b
                /\ \A k \in 1..Len(bars) :
                      bars[k].bucket = b =>
                          /\ bars[k].open = TradeRow[df[MinOf(S)]].price
                          /\ bars[k].close = TradeRow[df[MaxOf(S)]].price
                          /\ bars[k].high = MaxOf(P)
                          /\ bars[k].low = MinOf(P)
                          /\ bars[k].volume = VolumeAt(df, S)
                          /\ bars[k].trades = Cardinality(S)

\* bars were made of a time-ordered frame with three trades in one bucket,
\* of different prices, the first neither the highest nor the lowest
C21_Witness ==
    /\ rp_pc = "made"
    /\ IsTimeOrdered(df)
    /\ \E k \in 1..Len(bars) :
          /\ bars[k].trades = 3
          /\ bars[k].open # bars[k].close
          /\ bars[k].open # bars[k].high
          /\ bars[k].open # bars[k].low

\* C22: the bars make_second_bars returns, and the bars written to the
\* --sec-bars file, hold exactly one bar for each bucket with at least one
\* trade and no bar for a bucket without trades.
C22_OneBarPerPopulatedBucket ==
    /\ rp_pc \in {"made", "saved"} =>
          /\ \A k \in 1..Len(bars) : bars[k].bucket \in Populated(df)
          /\ \A b \in Populated(df) :
                Cardinality({k \in 1..Len(bars) : bars[k].bucket = b}) = 1
    /\ rp_pc = "saved" =>
          \A k \in 1..Len(exported) : exported[k].bucket \in Populated(df)

\* C23: for every bar, vwap is the quotient of the bucket's sum of
\* price * volume by its sum of volume when that sum is not zero, and is the
\* missing value (no quotient at all) when it is zero.
C23_VwapOrNull ==
    rp_pc \in {"made", "saved"} =>
        \A k \in 1..Len(bars) :
            LET S == IdxOfBucket(df, bars[k].bucket)
                v == VolumeAt(df, S)
                pv == PriceVolumeAt(df, S)
            IN  IF v = 0
                THEN bars[k].vwap = <<>>
                ELSE /\ Len(bars[k].vwap) = 2
                     /\ bars[k].vwap[2] # 0
                     /\ bars[k].vwap[1] * v = pv * bars[k].vwap[2]

\* bars with a bucket of two trades of non-zero total volume, which has a
\* quotient, and a bucket whose only trade has volume 0, which has none
C23_Witness ==
    /\ rp_pc = "made"
    /\ \E k \in 1..Len(bars) :
          bars[k].trades = 2 /\ bars[k].volume > 0 /\ bars[k].vwap # <<>>
    /\ \E k \in 1..Len(bars) :
          bars[k].trades = 1 /\ bars[k].volume = 0 /\ bars[k].vwap = <<>>

\* ---------------------------------------------------------------------
\* Properties of the replay source
\* ---------------------------------------------------------------------
NonDecreasingTs(ms) ==
    \A k \in 1..(Len(ms) - 1) : ms[k].src_ts <= ms[k + 1].src_ts

\* C24: whatever the order of the lines of the file and whatever the symbol
\* filter, the pairs the replay source yields, in tick mode and in bar mode,
\* have non-decreasing source timestamps.
C24_SourceTimestampsOrdered ==
    /\ rp_pc = "ready" => NonDecreasingTs(Messages)
    /\ \A i \in Iters : NonDecreasingTs(its[i].out)

\* a file whose lines are not in time order, filtered by symbol, has been
\* iterated to its end in tick mode and yielded at least two pairs
C24_Witness ==
    /\ ~IsTimeOrdered(file)
    /\ symbol # ""
    /\ ticks
    /\ \E i \in Iters : its[i].pc = "exhausted" /\ Len(its[i].out) >= 2

\* C25: every iteration of the replay source, however many there are and
\* whether or not another one is in progress, yields the same sequence from
\* its first pair: what an iteration has yielded is always a prefix of the
\* one sequence of the frame, the whole of it once exhausted and then equal
\* to what the previous iteration yielded; and iterating changes neither the
\* frame nor the file.
C25_Restartable ==
    /\ [](rp_pc = "ready" =>
            \A i \in Iters :
                /\ its[i].out = SubSeq(Messages, 1, Len(its[i].out))
                /\ its[i].pos = Len(its[i].out)
                /\ its[i].pc = "exhausted" => its[i].out = Messages
                /\ (its[i].pc = "exhausted" /\ its[i].made >= 2)
                      => its[i].out = its[i].prev)
    /\ [][/\ rp_pc = "ready" => (df' = df /\ file' = file)
          /\ \A i \in Iters :
                its'[i].made # its[i].made =>
                    its'[i].pos = 0 /\ its'[i].out = <<>>]_vars

\* an iterator's second iteration has yielded the same two or more pairs as
\* its first, while the other iterator is in the middle of its own
C25_Witness ==
    \E i, j \in Iters :
        /\ i # j
        /\ its[i].made = 2
        /\ its[i].pc = "exhausted"
        /\ Len(its[i].out) >= 2
        /\ its[i].out = its[i].prev
        /\ its[j].pc = "iterating"
        /\ its[j].pos = 1

\* C26: when the file is empty, or no row of it is left by the symbol
\* filter, building the frame raises nothing and the replay source yields
\* nothing in either mode: every iteration ends without a pair.
C26_EmptySourceYieldsNothing ==
    /\ rp_pc # "raised"
    /\ (rp_pc = "ready" /\ FilterPair(file, symbol) = <<>>) =>
          /\ df = <<>>
          /\ GenTickMessages(df) = <<>>
          /\ GenSecbarMessages(df) = <<>>
          /\ \A i \in Iters : its[i].out = <<>> /\ its[i].pos = 0

\* a file with rows none of which is of the wanted pair has been iterated to
\* the end in bar mode without a pair
C26_Witness ==
    /\ file # <<>>
    /\ symbol # ""
    /\ ~ticks
    /\ rp_pc = "ready"
    /\ df = <<>>
    /\ \E i \in Iters : its[i].pc = "exhausted" /\ its[i].out = <<>>

\* ---------------------------------------------------------------------
\* Properties of parse_duration_to_seconds
\* ---------------------------------------------------------------------
\* the expression is, apart from spaces, entirely made of <N><unit> tokens
\* with known units, or is a plain integer
WellFormedDuration(expr) ==
    LET e == Lower(Strip(expr))
        toks == FindAll(e, 1)
    IN  \/ IsPlainInteger(e)
        \/ /\ toks # <<>>
           /\ \A t \in 1..Len(toks) : KnownUnit(toks[t].unit)
           /\ \A i \in 1..Len(e) :
                 IsSpace(e[i]) \/
                 \E t \in 1..Len(toks) : toks[t].from <= i /\ i <= toks[t].to

\* C27: parse_duration_to_seconds returns a value only for a well-formed
\* duration with a positive total; for any other expression, the plain
\* integer 0 included, it raises ValueError.
C27_RejectsBadDurations ==
    dur_pc = "returned" => (WellFormedDuration(dur_in) /\ dur_out > 0)

\* ---------------------------------------------------------------------
\* Further properties of fetch_trades_for_day
\* ---------------------------------------------------------------------
\* C32: a page request is issued only by the while test, which is reached
\* from the start of the fetch (no page requested yet) or from the end of
\* time.sleep(rate_delay), so the rate delay lies between any two consecutive
\* requests; and while a request is outstanding nothing happens but its
\* response, so no second request is issued beside it.
C32_RateDelayBetweenRequests ==
    /\ [][(/\ (fetch_pc' = "request" /\ fetch_pc # "request")
                  => (fetch_pc = "loop" /\ pages' = pages + 1)
           /\ (fetch_pc' = "loop" /\ fetch_pc # "loop") => fetch_pc = "sleep"
           /\ fetch_pc = "request" => pages' = pages
           /\ pages' # pages => fetch_pc' = "request")]_vars
    /\ [](fetch_pc = "loop" => (pages = 0 \/ resp_kind = "ok"))
    /\ [](fetch_pc = "request" => ENABLED ServerPage /\ ~ENABLED LoopTest)

\* the second request of a fetch is outstanding
C32_Witness == fetch_pc = "request" /\ pages = 2

\* ---------------------------------------------------------------------
\* Further properties of ws_serve_shared
\* ---------------------------------------------------------------------
\* C34: in shared mode the scheduler is suspended in its call of broadcast for
\* message k as long as a send of it is pending, and calls broadcast for the
\* next message only when no send task is left; the pending sends are those
\* of the latest snapshot, so each subscriber is sent its messages in source
\* order, and one pending send holds the next message back for everyone.
C34_NextMessageWaitsForSends ==
    /\ [][(/\ (sched_pc = "sending" /\ sched_pc' # "sending")
                  => \A c \in Conns : tasks[c] # "pending"
           /\ delivered' # delivered
                  => (\A c \in Conns : tasks[c] = "none" /\ tasks'[c] = "none")
           /\ \A c \in Conns :
                  sent'[c] # sent[c]
                      => \A n \in sent[c] : \A n2 \in sent'[c] \ sent[c] : n < n2)
       ]_vars
    /\ [](\A c \in Conns :
              tasks[c] = "pending" =>
                  /\ sched_pc = "sending"
                  /\ bc_pc = "waiting"
                  /\ snaps = Len(delivered)
                  /\ snaps \in sent[c]
                  /\ \A n \in sent[c] : n <= snaps
                  /\ ~ENABLED BcastWaitDone
                  /\ ~ENABLED NextMsg)

\* the send of the first message to one subscriber has completed while its
\* send to the other is pending: the second message is held back
C34_Witness ==
    \E c, d \in Conns :
        /\ tasks[c] = "ok"
        /\ tasks[d] = "pending"
        /\ pos = 1
        /\ Len(src) = 2
        /\ Len(delivered) = 1

\* the scheduler was suspended during its current pass: it slept (a sleep of
\* this pass ends after the pass's wall0, one of an earlier pass does not),
\* or it awaited the send tasks of a broadcast of this pass
SuspendedInPass ==
    \/ wake_at > wall0
    \/ \E c \in Conns : \E n \in sent[c] : delivered[n].pass = pass

\* C33: while the hub serves, a scheduler that goes round its `while True`
\* has reached a suspension point during the pass it has just made (a pass
\* without one is followed by another, with nothing else run in between, so
\* the steps without suspension are unbounded); and whenever no task holds
\* the thread, a connection that is not yet accepted can be.
C33_SchedulerYields ==
    /\ (loop_forever /\ sched_pc = "start" /\ pass >= 1) => SuspendedInPass
    /\ \A c \in Conns :
          (LoopIdle /\ Serving /\ h_pc[c] = "none") => ENABLED Connect(c)

\* C31: in shared mode a connection is in the subscriber set only while its
\* handler is between its join and its removal; it enters the set only by its
\* handler's join, so it is never re-added once removed; a snapshot taken
\* after its removal does not contain it; and every connection that has
\* closed, or to which a send has failed, is eventually removed and its
\* handler gone.
C31_SubscriberLifecycle ==
    /\ [](\A c \in Conns :
              /\ c \in clients => h_pc[c] \in {"active", "leave_cs"}
              /\ h_pc[c] = "gone" => c \notin clients)
    /\ [][\A c \in Conns :
              /\ (c \notin clients /\ c \in clients') => h_pc[c] = "join_cs"
              /\ h_pc[c] = "gone" => (h_pc'[c] = "gone" /\ c \notin clients')
              /\ (snaps' # snaps /\ h_pc[c] = "gone")
                    => (c \notin targets' /\ tasks'[c] = "none"
                            /\ sent'[c] = sent[c])]_vars
    /\ \A c \in Conns :
          (ws_state[c] = "closed" \/ tasks[c] = "exc")
              ~> (h_pc[c] = "gone" /\ c \notin clients)

\* a send to a subscriber whose connection is open has failed, the broadcast
\* has closed the connection, and the subscriber has been removed while the
\* other one is still subscribed
C31_Witness ==
    \E c, d \in Conns :
        /\ tasks[c] = "cleaned"
        /\ h_pc[c] = "gone"
        /\ c \notin clients
        /\ sent[c] # {}
        /\ d \in clients
        /\ ws_state[d] = "open"

\* C35: in shared mode with loop disabled the scheduler makes one pass,
\* started from the hub's initial state whoever is connected; once the last
\* message has been broadcast no connection is accepted and nothing more is
\* sent, and the server's shutdown, which is then due, leaves no connection
\* open: eventually every connection is closed and the subscriber set empty.
C35_LifetimeIsOnePass ==
    /\ [](/\ (pass = 0 /\ sched_pc = "start") => ENABLED PassStart
          /\ ~loop_forever => pass <= 1
          /\ sched_pc = "done" =>
                /\ ~loop_forever
                /\ pass = 1
                /\ Len(delivered) = Len(src)
                /\ \A c \in Conns : ~ENABLED Connect(c)
                /\ (\E c \in Conns : ws_state[c] = "open")
                        => ENABLED ServerClose)
    /\ [][sched_pc = "done" =>
              /\ sent' = sent /\ delivered' = delivered /\ sched_pc' = "done"
              /\ \A c \in Conns :
                    /\ h_pc[c] = "none" => h_pc'[c] = "none"
                    /\ (ws_state[c] = "open" /\ ws_state'[c] # "open"
                            /\ \E d \in Conns \ {c} : ws_state'[d] # ws_state[d])
                          => \A d \in Conns : ws_state'[d] # "open"]_vars
    /\ (sched_pc = "done")
          ~> (clients = {} /\ \A c \in Conns : ws_state[c] # "open")

\* the pass is over; a subscriber that was sent both messages has been
\* disconnected and not yet removed, and the other connection, which has not
\* been accepted, cannot be
C35_Witness ==
    \E c, d \in Conns :
        /\ sched_pc = "done"
        /\ c \in clients
        /\ h_pc[c] = "active"
        /\ ws_state[c] = "closed"
        /\ sent[c] = {1, 2}
        /\ h_pc[d] = "none"

\* ---------------------------------------------------------------------
\* Further properties of ws_serve_per_client
\* ---------------------------------------------------------------------
\* C30: in per-subscriber mode, when a send to a connection fails, its
\* handler ends in that step (returned, or left by the exception), nothing of
\* that connection changes afterwards, so no further delivery is attempted,
\* and the other connection can still be accepted and served.
C30_SendFailureEndsHandler ==
    /\ [][\A c \in Conns :
              /\ (conn[c].pc = "sending" /\ conn'[c].pc # "sending"
                      /\ conn[c].ws = "closed")
                    => conn'[c].pc = "returned"
              /\ (conn[c].pc = "sending" /\ conn'[c].pc \notin {"sending", "iter"})
                    => /\ conn'[c].pc \in {"returned", "raised"}
                       /\ conn'[c].log = conn[c].log
              /\ conn[c].pc \in {"returned", "raised"}
                    => conn'[c] = conn[c]]_vars
    /\ [](\A c \in Conns : \A d \in Conns \ {c} :
              conn[c].pc \in {"returned", "raised"} =>
                  /\ conn[d].pc = "none" => ENABLED PcAccept(d)
                  /\ conn[d].pc = "start" /\ conn[d].pass < MaxPasses
                        => ENABLED PcPassStart(d)
                  /\ conn[d].pc = "iter" => ENABLED PcNextMsg(d)
                  /\ (conn[d].pc = "sending" /\ conn[d].ws = "open")
                        => ENABLED PcSendOk(d))

\* a send to one connection failed on the closed connection, after a pacing
\* delay, and its handler returned; the other connection, whose first message
\* was sent no earlier than that failed send, has been served the whole source
C30_Witness ==
    \E c, d \in Conns :
        /\ c # d
        /\ conn[c].pc = "returned"
        /\ conn[c].log # <<>>
        /\ conn[d].pc = "done"
        /\ Len(conn[d].log) = Len(src)
        /\ conn[c].log[Len(conn[c].log)].at > MaxClock
        /\ conn[d].log[1].at >= conn[c].log[Len(conn[c].log)].at

\* ---------------------------------------------------------------------
\* Properties of BacktestOrchestrator.download_days
\* ---------------------------------------------------------------------
\* C36: the index lists a date under a symbol only if _download_day has
\* returned True for that symbol and date (it was downloaded, or its file was
\* found cached); and each list is in strictly increasing order, so no date
\* is listed twice.
C36_IndexListsOnlyDownloaded ==
    \A sym \in CacheSymbols :
        LET q == index[sym].downloaded_dates
        IN  /\ \A j \in 1..Len(q) : <<sym, q[j]>> \in returned_true
            /\ \A j \in 1..(Len(q) - 1) : q[j] < q[j + 1]

====
